---- MODULE Spec2Model ----
(***************************************************************************)
(* A model of the Rappterbook single-page front end: the hash router and  *)
(* its page handlers (src/src/js/router.js: home, discussion and channel   *)
(* pages, the comment form), the fetch cache (src/src/js/state.js), the    *)
(* polling loop (src/src/js/app.js), the discussions gateway               *)
(* (src/src/js/discussions.js), the stored credential (RB_AUTH), the       *)
(* comment tree (src/src/js/render.js) and the markdown renderer           *)
(* (src/src/js/markdown.js).                                               *)
(*                                                                         *)
(* Strings are sequences of symbols.  The symbol "/" is the slash; every   *)
(* other symbol stands for a fixed non-empty piece of text that contains   *)
(* no slash, so a regular expression over characters reads the same way    *)
(* over symbols.                                                           *)
(***************************************************************************)
EXTENDS Integers, Sequences, FiniteSets, TLC

VARIABLES
    \* ---- route matching (RB_ROUTER.matchRoute applied to one token) ----
    mrHash,        \* the token handed to matchRoute
    mrPc,          \* "call" before matchRoute has run, "returned" after
    mrResult,      \* what matchRoute returned
    \* ---- the fetch cache (RB_STATE.cache) and the clock ----
    now,           \* Date.now(), in milliseconds
    cache,         \* RB_STATE.cache: key -> entry or Absent
    calls,         \* the getCached calls made so far, in call order
    clears,        \* how many times RB_STATE.cache = {} has run
    \* ---- the page: router, DOM, handler runs, polling ----
    pollTimer,     \* RB_APP.pollTimer: "null" or "set"
    currentRoute,  \* RB_ROUTER.currentRoute (<<>> stands for null)
    app,           \* what #app shows
    feed,          \* the posts in #feed-container, in display order
    loadMoreBtn,   \* the load-more button of the page shown
    homePostsLoaded, \* RB_ROUTER._homePostsLoaded
    runs,          \* the page-handler runs started so far
    loads,         \* the load-more clicks handled so far
    postLog,       \* how many posts state/posted_log.json holds
    finished,      \* the runs that have written their page, in that order
    \* ---- the discussions gateway ----
    token,         \* localStorage rb_access_token
    repoInfo,      \* RB_DISCUSSIONS._repoInfo is set
    ops,           \* the gateway operations called so far
    requests,      \* the network requests the gateway has issued
    \* ---- the discussion page ----
    dRuns,         \* the loads of a discussion page started so far
    reads,         \* the read requests issued for discussion pages
    listeners,     \* the discussion numbers of the attach steps run on #app
    buttons,       \* the vote and reaction buttons of the discussion shown
    clicks,        \* the clicks on discussion controls handled so far
    logins,        \* how many times RB_AUTH.login() has redirected
    \* ---- the type filter bar of the home page ----
    filterBar,     \* the posts the filter listener closed over, and its page
    \* ---- a pure function applied to one input ----
    fnIn,          \* the argument
    fnPc,          \* "call" before the function has run, "returned" after
    fnOut,         \* what it returned
    \* ---- the cached identity ----
    user,          \* localStorage rb_user
    \* ---- the controls of the channel page ----
    channel        \* the posts the listeners closed over, the pill, the sort

routeVars == <<mrHash, mrPc, mrResult>>

cacheVars == <<now, cache, calls, clears>>

appVars == <<pollTimer, currentRoute, app, feed, loadMoreBtn, homePostsLoaded,
             runs, loads, postLog, finished>>

gwVars == <<token, repoInfo, ops, requests>>

discVars == <<dRuns, reads, listeners, buttons, clicks, logins>>

filterVars == <<filterBar>>

fnVars == <<fnIn, fnPc, fnOut>>

authVars == <<user>>

chanVars == <<channel>>

vars == <<mrHash, mrPc, mrResult, now, cache, calls, clears, pollTimer,
          currentRoute, app, feed, loadMoreBtn, homePostsLoaded, runs, loads,
          postLog, finished, token, repoInfo, ops, requests, dRuns, reads,
          listeners, buttons, clicks, logins, filterBar, fnIn, fnPc, fnOut, user,
          channel>>

(***************************************************************************)
(* RB_ROUTER.routes: the declared patterns, in declaration order.          *)
(***************************************************************************)
routes ==
  <<
    [pattern |-> <<"/">>, handler |-> "handleHome"],
    [pattern |-> <<"/", "channels">>, handler |-> "handleChannels"],
    [pattern |-> <<"/", "channels", "/", ":", "slug">>, handler |-> "handleChannel"],
    [pattern |-> <<"/", "agents">>, handler |-> "handleAgents"],
    [pattern |-> <<"/", "agents", "/", ":", "id", "/", "soul">>, handler |-> "handleSoul"],
    [pattern |-> <<"/", "agents", "/", ":", "id">>, handler |-> "handleAgent"],
    [pattern |-> <<"/", "trending">>, handler |-> "handleTrending"],
    [pattern |-> <<"/", "explore">>, handler |-> "handleExplore"],
    [pattern |-> <<"/", "discussions", "/", ":", "number">>, handler |-> "handleDiscussion"],
    [pattern |-> <<"/", "ghosts">>, handler |-> "handleGhosts"],
    [pattern |-> <<"/", "summons">>, handler |-> "handleSummons"],
    [pattern |-> <<"/", "pulse">>, handler |-> "handlePulse"],
    [pattern |-> <<"/", "leaderboard">>, handler |-> "handleLeaderboard"],
    [pattern |-> <<"/", "arena">>, handler |-> "handleArena"],
    [pattern |-> <<"/", "vault">>, handler |-> "handleVault"],
    [pattern |-> <<"/", "predictions">>, handler |-> "handlePredictions"],
    [pattern |-> <<"/", "explorer">>, handler |-> "handleExplorer"],
    [pattern |-> <<"/", "pokes">>, handler |-> "handlePokes"],
    [pattern |-> <<"/", "vitals">>, handler |-> "handleVitals"],
    [pattern |-> <<"/", "cipher">>, handler |-> "handleCipher"],
    [pattern |-> <<"/", "heatmap">>, handler |-> "handleHeatmap"],
    [pattern |-> <<"/", "forge">>, handler |-> "handleForge"],
    [pattern |-> <<"/", "terminal">>, handler |-> "handleTerminal"],
    [pattern |-> <<"/", "radar">>, handler |-> "handleRadar"],
    [pattern |-> <<"/", "heartbeat">>, handler |-> "handleHeartbeat"],
    [pattern |-> <<"/", "orbit">>, handler |-> "handleOrbit"],
    [pattern |-> <<"/", "constellation">>, handler |-> "handleConstellation"],
    [pattern |-> <<"/", "tarot">>, handler |-> "handleTarot"],
    [pattern |-> <<"/", "whispers">>, handler |-> "handleWhispers"],
    [pattern |-> <<"/", "seance">>, handler |-> "handleSeance"],
    [pattern |-> <<"/", "matrix">>, handler |-> "handleMatrix"],
    [pattern |-> <<"/", "elements">>, handler |-> "handleElements"],
    [pattern |-> <<"/", "aquarium">>, handler |-> "handleAquarium"],
    [pattern |-> <<"/", "dna">>, handler |-> "handleDna"],
    [pattern |-> <<"/", "ouija">>, handler |-> "handleOuija"],
    [pattern |-> <<"/", "blackhole">>, handler |-> "handleBlackhole"],
    [pattern |-> <<"/", "synth">>, handler |-> "handleSynth"],
    [pattern |-> <<"/", "typewriter">>, handler |-> "handleTypewriter"],
    [pattern |-> <<"/", "glitch">>, handler |-> "handleGlitch"],
    [pattern |-> <<"/", "warmap">>, handler |-> "handleWarmap"],
    [pattern |-> <<"/", "compose">>, handler |-> "handleCompose"],
    [pattern |-> <<"/", "me">>, handler |-> "handleMe"],
    [pattern |-> <<"/", "search", "/", ":", "query">>, handler |-> "handleSearch"],
    [pattern |-> <<"/", "search">>, handler |-> "handleSearch"],
    [pattern |-> <<"/", "notifications">>, handler |-> "handleNotifications"]
  >>

(***************************************************************************)
(* The regular expression matchRoute builds from a pattern:                *)
(*   new RegExp('^' + pattern.replace(/:[^/]+/g, '([^/]+)') + '$')         *)
(***************************************************************************)
Lit(c) == [kind |-> "lit", sym |-> c]

Group == [kind |-> "group", sym |-> ""]

\* [^/] in the pattern-side expression /:[^/]+/g
PatternParamChar(c) == c # "/"

\* Length of the longest run of symbols accepted by /[^/]+/ in p from i on.
RECURSIVE PatternRunLen(_, _)
PatternRunLen(p, i) ==
    IF i <= Len(p) /\ PatternParamChar(p[i]) THEN 1 + PatternRunLen(p, i + 1) ELSE 0

\* Does /:[^/]+/ match in p at position i ?
ParamAt(p, i) == p[i] = ":" /\ PatternRunLen(p, i + 1) >= 1

\* pattern.replace(/:[^/]+/g, '([^/]+)'), as a sequence of regex items
RECURSIVE CompileFrom(_, _)
CompileFrom(p, i) ==
    IF i > Len(p) THEN <<>>
    ELSE IF ParamAt(p, i)
         THEN <<Group>> \o CompileFrom(p, i + 1 + PatternRunLen(p, i + 1))
         ELSE <<Lit(p[i])>> \o CompileFrom(p, i + 1)

Compile(p) == CompileFrom(p, 1)

\* (pattern.match(/:[^/]+/g) || []).map(p => p.slice(1))
RECURSIVE ParamNamesFrom(_, _)
ParamNamesFrom(p, i) ==
    IF i > Len(p) THEN <<>>
    ELSE IF ParamAt(p, i)
         THEN <<SubSeq(p, i + 1, i + PatternRunLen(p, i + 1))>>
              \o ParamNamesFrom(p, i + 1 + PatternRunLen(p, i + 1))
         ELSE ParamNamesFrom(p, i + 1)

ParamNames(p) == ParamNamesFrom(p, 1)

GroupCharAny(c) == TRUE

\* [^/] inside the capture group ([^/]+)
GroupChar(c) == c # "/"

RECURSIVE GroupRunLen(_, _)
GroupRunLen(s, j) ==
    IF j <= Len(s) /\ GroupChar(s[j]) THEN 1 + GroupRunLen(s, j + 1) ELSE 0

NoRegexMatch == [ok |-> FALSE, groups |-> <<>>]

\* hash.match(regex): anchored at both ends, a group is greedy and backtracks.
RECURSIVE MatchFrom(_, _, _, _)
RECURSIVE TryGroup(_, _, _, _, _)
MatchFrom(re, i, s, j) ==
    IF i > Len(re) THEN [ok |-> j > Len(s), groups |-> <<>>]
    ELSE IF re[i].kind = "lit"
         THEN IF j <= Len(s) /\ s[j] = re[i].sym
              THEN MatchFrom(re, i + 1, s, j + 1)
              ELSE NoRegexMatch
         ELSE TryGroup(re, i, s, j, GroupRunLen(s, j))

TryGroup(re, i, s, j, k) ==
    IF k < 1 THEN NoRegexMatch
    ELSE LET rest == MatchFrom(re, i + 1, s, j + k)
         IN  IF rest.ok
             THEN [ok |-> TRUE, groups |-> <<SubSeq(s, j, j + k - 1)>> \o rest.groups]
             ELSE TryGroup(re, i, s, j, k - 1)

RegexMatch(re, s) == MatchFrom(re, 1, s, 1)

\* params = {}; paramNames.forEach((name, i) => { params[name] = match[i + 1]; })
BuildParams(names, groups) ==
    [n \in {names[i] : i \in DOMAIN names} |->
        groups[CHOOSE i \in DOMAIN names :
                  names[i] = n /\ \A k \in DOMAIN names : names[k] = n => k <= i]]

NoMatch == [found |-> FALSE, handler |-> "", params |-> <<>>]

\* for (const [pattern, handler] of Object.entries(this.routes)) { ... return } return null
RECURSIVE matchRouteFrom(_, _)
matchRouteFrom(hash, i) ==
    IF i > Len(routes) THEN NoMatch
    ELSE LET m == RegexMatch(Compile(routes[i].pattern), hash)
         IN  IF m.ok
             THEN [found |-> TRUE, handler |-> routes[i].handler,
                   params |-> BuildParams(ParamNames(routes[i].pattern), m.groups)]
             ELSE matchRouteFrom(hash, i + 1)

matchRoute(hash) == matchRouteFrom(hash, 1)

RouteIdle ==
    /\ mrHash = <<>>
    /\ mrPc = "idle"
    /\ mrResult = NoMatch

\* localStorage.getItem answers null for a key that is not stored
Null == "null"

GatewayIdle ==
    /\ token = Null
    /\ repoInfo = FALSE
    /\ ops = <<>>
    /\ requests = <<>>

(***************************************************************************)
(* RB_STATE.getCached and the cache it keeps.                              *)
(***************************************************************************)
\* cacheExpiry: 60000, // 1 minute
cacheExpiry == 60000

\* The keys the cached accessors of RB_STATE use.
CacheKeys ==
    {"agents", "channels", "changes", "trending", "stats", "pokes",
     "agents_raw", "channels_raw"}

Absent == [present |-> FALSE, data |-> "", timestamp |-> 0]

\* cache: {}
EmptyCache == [k \in CacheKeys |-> Absent]

\* this.cache[key] && (now - this.cache[key].timestamp < this.cacheExpiry)
CacheValid(c, key, t) ==
    c[key].present /\ t - c[key].timestamp < cacheExpiry

\* this.cache[key] = { data, timestamp: now }   (now: read when the call began)
CacheStore(c, key, data, ts) ==
    [c EXCEPT ![key] = [present |-> TRUE, data |-> data, timestamp |-> ts]]

CacheIdle ==
    /\ now = 0
    /\ cache = EmptyCache
    /\ calls = <<>>
    /\ clears = 0

(***************************************************************************)
(* The page: what #app shows, and the values the handlers work with.       *)
(***************************************************************************)
\* _homeBatchSize: 20
homeBatchSize == 20

\* pollInterval: 60000, // 60 seconds
pollInterval == 60000

Min(a, b) == IF a <= b THEN a ELSE b

\* #app as index.html ships it, before the first navigation
EmptyView == [kind |-> "empty", page |-> "", route |-> <<>>, by |-> 0,
              title |-> "", detail |-> ""]

\* RB_RENDER.renderLoading(), written by the dispatch `by`
Loading(by) == [kind |-> "loading", page |-> "", route |-> <<>>, by |-> by,
                title |-> "", detail |-> ""]

\* the page a handler renders on success
Page(page, route, by) == [kind |-> "page", page |-> page, route |-> route,
                          by |-> by, title |-> "", detail |-> ""]

\* RB_RENDER.renderError(message, detail)
ErrorView(title, detail, route, by) ==
    [kind |-> "error", page |-> "", route |-> route, by |-> by,
     title |-> title, detail |-> detail]

NoButton == [present |-> FALSE, disabled |-> FALSE, owner |-> 0]

\* The message of the error a failed request rejects with.
FetchFailed == "HTTP 500: Internal Server Error"

OldestFirst(n) == [i \in 1..n |-> i]

\* (log.posts || []).slice().reverse(): the log holds posts 1..n oldest first.
NewestFirst(n) == [i \in 1..n |-> n - i + 1]

\* posts.slice(0, limit) of the newest-first log (channelSlug = null)
RecentFromLog(n, limit) == SubSeq(NewestFirst(n), 1, Min(limit, n))

\* What the REST fallback answers with: discussions of the platform, numbered
\* apart from the log's posts; results.slice(0, limit).
RestPosts(n, limit) == [i \in 1..Min(limit, n) |-> 1000 + n - i + 1]

\* array.slice(from, to) with 0-based bounds
Slice(s, from, to) == SubSeq(s, from + 1, Min(to, Len(s)))

AppIdle ==
    /\ pollTimer = "null"
    /\ currentRoute = <<>>
    /\ app = EmptyView
    /\ feed = <<>>
    /\ loadMoreBtn = NoButton
    /\ homePostsLoaded = 0
    /\ runs = <<>>
    /\ loads = <<>>
    /\ postLog = 0
    /\ finished = <<>>

\* no discussion detail is shown: the page has no vote or reaction button
NoButtons == [by |-> 0, voted |-> FALSE, voteCount |-> 0, active |-> "absent",
              reactionCount |-> 0, disabled |-> {}]

DiscIdle ==
    /\ dRuns = <<>>
    /\ reads = <<>>
    /\ listeners = <<>>
    /\ buttons = NoButtons
    /\ clicks = <<>>
    /\ logins = 0

\* no home page has been rendered: no filter listener exists
NoFilterBar == [by |-> 0, posts |-> <<>>]

FilterIdle == filterBar = NoFilterBar

FnIdle ==
    /\ fnIn = <<>>
    /\ fnPc = "idle"
    /\ fnOut = <<>>

\* no identity is cached
AuthIdle == user = Null

\* no channel page has been rendered
NoChannel == [shown |-> FALSE, posts |-> <<>>, active |-> "all",
              sort |-> "recent", currentTypeFilter |-> "all"]

ChannelIdle == channel = NoChannel

(***************************************************************************)
(* getCached on its own: callers start calls with producers that resolve   *)
(* or reject later, the clock advances, and the poll timer's cache clear   *)
(* (app.js, RB_STATE.cache = {}) may run between any two steps.            *)
(***************************************************************************)
MaxCalls == 3

MaxAdvances == 3

MaxClears == 1

\* The clock advances in steps of a third of the expiry time.
TimeStep == cacheExpiry \div 3

HarnessKeys == {"stats"}

CallIds == 1..Len(calls)

Settled(c) == calls[c].pc \in {"hit", "resolved", "rejected"}

\* What the producer of call c resolves to: a value of its own.
Produced(c) == <<"data", c>>

BeginJoinInFlight(key) ==
    LET id    == Len(calls) + 1
        valid == CacheValid(cache, key, now)
        busy  == \E c \in CallIds : calls[c].key = key /\ calls[c].pc = "pending"
    IN  calls' = Append(calls,
            [key |-> key, start |-> now,
             pc |-> IF valid THEN "hit" ELSE "pending",
             invoked |-> IF valid \/ busy THEN 0 ELSE 1,
             ret |-> IF valid THEN cache[key].data ELSE <<"none", 0>>,
             validAtBegin |-> valid,
             clearsAtBegin |-> clears,
             settledBefore |-> {c \in CallIds : Settled(c)},
             pendingAtBegin |-> {c \in CallIds : calls[c].pc = "pending"},
             cacheChanged |-> FALSE])

\* getCached up to its first await: const now = Date.now(); a valid entry is
\* returned, otherwise fetcher() is invoked and the call waits for it.
BeginCall(key) ==
    LET id    == Len(calls) + 1
        valid == CacheValid(cache, key, now)
    IN  calls' = Append(calls,
            [key |-> key, start |-> now,
             pc |-> IF valid THEN "hit" ELSE "pending",
             invoked |-> IF valid THEN 0 ELSE 1,
             ret |-> IF valid THEN cache[key].data ELSE <<"none", 0>>,
             validAtBegin |-> valid,
             clearsAtBegin |-> clears,
             settledBefore |-> {c \in CallIds : Settled(c)},
             pendingAtBegin |-> {c \in CallIds : calls[c].pc = "pending"},
             cacheChanged |-> FALSE])

GetCachedBegin(key) ==
    /\ Len(calls) < MaxCalls
    /\ BeginCall(key)
    /\ UNCHANGED <<now, cache, clears, routeVars, discVars, filterVars, fnVars, chanVars, authVars, gwVars, appVars>>

StoreAlways(c, ok) ==
    CacheStore(cache, calls[c].key, Produced(c), calls[c].start)

\* After `await fetcher()`: the entry is written only when the producer
\* resolved; a rejection leaves getCached before the assignment.
StoreOnSettle(c, ok) ==
    IF ok THEN CacheStore(cache, calls[c].key, Produced(c), calls[c].start)
    ELSE cache

\* const data = await fetcher(); this.cache[key] = {...}; return data;
ProducerResolves(c) ==
    /\ calls[c].pc = "pending"
    /\ cache' = StoreOnSettle(c, TRUE)
    /\ calls' = [calls EXCEPT ![c].pc = "resolved", ![c].ret = Produced(c),
                              ![c].cacheChanged = (cache' # cache)]
    /\ UNCHANGED <<now, clears, routeVars, discVars, filterVars, fnVars, chanVars, authVars, gwVars, appVars>>

\* await fetcher() throws: the rejection leaves getCached.
ProducerRejects(c) ==
    /\ calls[c].pc = "pending"
    /\ cache' = StoreOnSettle(c, FALSE)
    /\ calls' = [calls EXCEPT ![c].pc = "rejected",
                              ![c].cacheChanged = (cache' # cache)]
    /\ UNCHANGED <<now, clears, routeVars, discVars, filterVars, fnVars, chanVars, authVars, gwVars, appVars>>

\* Time passes.
AdvanceClock ==
    /\ now < MaxAdvances * TimeStep
    /\ now' = now + TimeStep
    /\ UNCHANGED <<cache, calls, clears, routeVars, discVars, filterVars, fnVars, chanVars, authVars, gwVars, appVars>>

\* RB_STATE.cache = {};   (the poll timer's clear)
ClearCache ==
    /\ clears < MaxClears
    /\ cache' = EmptyCache
    /\ clears' = clears + 1
    /\ UNCHANGED <<now, calls, routeVars, discVars, filterVars, fnVars, chanVars, authVars, gwVars, appVars>>

InitCache ==
    /\ CacheIdle
    /\ DiscIdle
    /\ FilterIdle
    /\ FnIdle
    /\ ChannelIdle
    /\ AuthIdle
    /\ RouteIdle
    /\ GatewayIdle
    /\ AppIdle

NextCache ==
    \/ \E key \in HarnessKeys : GetCachedBegin(key)
    \/ \E c \in CallIds : ProducerResolves(c)
    \/ \E c \in CallIds : ProducerRejects(c)
    \/ AdvanceClock
    \/ ClearCache

SpecCache == InitCache /\ [][NextCache]_vars

(***************************************************************************)
(* C2, C7, C8: getCached.                                                  *)
(***************************************************************************)
SameKey(i, j) == calls[i].key = calls[j].key

\* j is the call that follows i among the calls with i's key.
Successive(i, j) ==
    /\ i < j
    /\ SameKey(i, j)
    /\ \A k \in CallIds : (i < k /\ k < j) => ~SameKey(i, k)

\* j was made after i had resolved (returned a value).
MadeAfterResolved(i, j) ==
    /\ i \in calls[j].settledBefore
    /\ calls[i].pc \in {"hit", "resolved"}

NoClearBetween(i, j) == calls[i].clearsAtBegin = calls[j].clearsAtBegin

\* C2 (as claimed): of two successive calls with the same key, the second
\* made after the first resolved and with no cache clear in between, the
\* producer runs at most once in total when the second call is made within
\* the expiry time of the first, and runs for the second call when it is made
\* after the expiry time has elapsed.
C2_AtMostOnceWithinTTL ==
    \A i, j \in CallIds :
        (Successive(i, j) /\ MadeAfterResolved(i, j) /\ NoClearBetween(i, j)) =>
            IF calls[j].start - calls[i].start < cacheExpiry
            THEN calls[i].invoked + calls[j].invoked <= 1
            ELSE calls[j].invoked = 1

\* C7 (as claimed): a call whose producer rejected stored nothing and left the
\* cache as it was, the call itself is rejected, and the next call for the
\* same key invokes the producer again.
C7_RejectionNotCachedAlwaysRetried ==
    \A i \in CallIds :
        calls[i].pc = "rejected" =>
            /\ ~calls[i].cacheChanged
            /\ \A k \in CacheKeys : cache[k].present => cache[k].data # Produced(i)
            /\ \A j \in CallIds :
                  (Successive(i, j) /\ i \in calls[j].settledBefore) =>
                      calls[j].invoked = 1

\* C7 (amended): as above, except that the next call for the same key invokes
\* the producer again unless it is served a still-valid entry that another
\* call, in flight at the same time as the rejected one, has stored.
C7_RejectionNotCached ==
    \A i \in CallIds :
        calls[i].pc = "rejected" =>
            /\ ~calls[i].cacheChanged
            /\ calls[i].ret = <<"none", 0>>
            /\ \A k \in CacheKeys : cache[k].present => cache[k].data # Produced(i)
            /\ \A j \in CallIds :
                  (Successive(i, j) /\ i \in calls[j].settledBefore) =>
                      \/ calls[j].invoked = 1
                      \/ \E b \in CallIds :
                            /\ b # i /\ b # j /\ SameKey(b, i)
                            /\ calls[b].pc = "resolved"
                            /\ b \notin calls[i].settledBefore
                            /\ calls[j].pc = "hit"
                            /\ calls[j].ret = Produced(b)

\* A rejected call followed, after its rejection, by a call for the same key
\* that invoked the producer again.
C7_Witness ==
    \E i, j \in CallIds :
        /\ calls[i].pc = "rejected"
        /\ Successive(i, j)
        /\ i \in calls[j].settledBefore
        /\ calls[j].invoked = 1

\* C8: two calls for the same key, both started while no valid entry exists
\* and the second while the first is still waiting for its producer, each
\* invoke the producer, and no call invokes its producer more than once.
C8_NoInFlightDedup ==
    /\ \A c \in CallIds : calls[c].invoked <= 1
    /\ \A i, j \in CallIds :
          (/\ i < j /\ SameKey(i, j)
           /\ ~calls[i].validAtBegin /\ ~calls[j].validAtBegin
           /\ i \in calls[j].pendingAtBegin) =>
              (calls[i].invoked = 1 /\ calls[j].invoked = 1)

\* Two calls for one key waiting for their producers at the same time.
C8_Witness ==
    \E i, j \in CallIds :
        /\ i < j /\ SameKey(i, j)
        /\ calls[i].pc = "pending" /\ calls[j].pc = "pending"
        /\ calls[i].invoked = 1 /\ calls[j].invoked = 1

(***************************************************************************)
(* Route matching on its own: one token in, one result out.                *)
(***************************************************************************)
MaxHashLen == 6

HashSymbols == {"/", "agents", "soul", "search", "x"}

RECURSIVE SeqsUpTo(_, _)
SeqsUpTo(S, n) ==
    IF n = 0 THEN {<<>>}
    ELSE LET shorter == SeqsUpTo(S, n - 1)
         IN  shorter \cup {Append(s, c) : s \in {t \in shorter : Len(t) = n - 1}, c \in S}

Hashes == SeqsUpTo(HashSymbols, MaxHashLen)

InitRoute ==
    /\ mrHash \in Hashes
    /\ mrPc = "call"
    /\ mrResult = NoMatch
    /\ CacheIdle
    /\ DiscIdle
    /\ FilterIdle
    /\ FnIdle
    /\ ChannelIdle
    /\ AuthIdle
    /\ AppIdle
    /\ GatewayIdle

ApplyMatchRoute ==
    /\ mrPc = "call"
    /\ mrPc' = "returned"
    /\ mrResult' = matchRoute(mrHash)
    /\ UNCHANGED <<mrHash, cacheVars, appVars, gwVars, discVars, filterVars, fnVars, chanVars, authVars>>

NextRoute == ApplyMatchRoute

SpecRoute == InitRoute /\ [][NextRoute]_vars

(***************************************************************************)
(* C1.  Segment-wise reading of a pattern, used to state the claim.        *)
(***************************************************************************)
\* The components of s between its slashes (s = "/a/b" gives <<"", "a", "b">>).
RECURSIVE SplitSlash(_)
SplitSlash(s) ==
    IF \A i \in DOMAIN s : s[i] # "/" THEN <<s>>
    ELSE LET k == CHOOSE i \in DOMAIN s :
                      s[i] = "/" /\ \A j \in DOMAIN s : s[j] = "/" => i <= j
         IN  <<SubSeq(s, 1, k - 1)>> \o SplitSlash(SubSeq(s, k + 1, Len(s)))

IsParamSeg(seg) == Len(seg) >= 2 /\ seg[1] = ":"

\* The token has as many components as the pattern; a static component is
\* equal to the pattern's, a `:name` component is any non-empty component.
SegMatches(pattern, hash) ==
    LET ps == SplitSlash(pattern)
        hs == SplitSlash(hash)
    IN  /\ Len(ps) = Len(hs)
        /\ \A i \in DOMAIN ps :
              IF IsParamSeg(ps[i]) THEN hs[i] # <<>> ELSE hs[i] = ps[i]

\* name -> the raw component found at the position of `:name`
SegParams(pattern, hash) ==
    LET ps == SplitSlash(pattern)
        hs == SplitSlash(hash)
        at == {i \in DOMAIN ps : IsParamSeg(ps[i])}
    IN  [n \in {Tail(ps[i]) : i \in at} |->
            hs[CHOOSE i \in at : Tail(ps[i]) = n]]

FirstSegMatch(hash) ==
    LET hits == {i \in DOMAIN routes : SegMatches(routes[i].pattern, hash)}
    IN  IF hits = {} THEN 0 ELSE CHOOSE i \in hits : \A k \in hits : i <= k

\* C1: matchRoute returns the handler of the first pattern (in declaration
\* order) that the token matches component by component, binds every `:name`
\* to the raw component at its position, and returns no match when no
\* declared pattern matches.
C1_FirstMatchWins ==
    mrPc = "returned" =>
        LET i == FirstSegMatch(mrHash)
        IN  IF i = 0 THEN mrResult = NoMatch
            ELSE /\ mrResult.found
                 /\ mrResult.handler = routes[i].handler
                 /\ mrResult.params = SegParams(routes[i].pattern, mrHash)

\* "/agents/x/soul" resolved to the soul page with id bound to "x".
C1_Witness ==
    /\ mrHash = <<"/", "agents", "/", "x", "/", "soul">>
    /\ mrPc = "returned"
    /\ mrResult.handler = "handleSoul"
    /\ mrResult.params = [n \in {<<"id">>} |-> <<"x">>]


(***************************************************************************)
(* The page at work.  A run is one execution of a page handler, started by *)
(* a navigation (through handleRoute) or by the poll timer.  Each step     *)
(* below is one task of the event loop: the code from one suspension point *)
(* to the next.                                                            *)
(***************************************************************************)
\* Promise.all([getStatsCached(), getTrendingCached(), getChangesCached(),
\*              getPokesCached()])
HomeKeyOrder == <<"stats", "trending", "changes", "pokes">>

HomeKeys == {HomeKeyOrder[i] : i \in DOMAIN HomeKeyOrder}

RunIds == 1..Len(runs)

\* What a producer of the page resolves to.
AppData == <<"data", 0>>

\* What the search API answers with, and what a failed search leaves.
SearchResults == <<2001>>

\* decodeURIComponent: "%41" is an escape of "A", a lone "%" is malformed.
Malformed(q) == \E i \in 1..Len(q) : q[i] = "%"

decodeURIComponent(q) == [i \in 1..Len(q) |-> IF q[i] = "%41" THEN "A" ELSE q[i]]

NewRun(via, handler, route, pc, waiting) ==
    [via |-> via, handler |-> handler, route |-> route, start |-> now,
     pc |-> pc, waiting |-> waiting, threw |-> "", fellBack |-> FALSE,
     out |-> EmptyView]

ShowIfCurrent(view, posts, btn) ==
    IF view.by >= Len(runs)
    THEN app' = view /\ feed' = posts /\ loadMoreBtn' = btn
    ELSE UNCHANGED <<app, feed, loadMoreBtn>>

\* app.innerHTML = ... : the old feed and button go with the old page
Show(view, posts, btn) ==
    /\ app' = view
    /\ feed' = posts
    /\ loadMoreBtn' = btn

RouteErrorUncaught(id, route, message) == Loading(id)

\* handleRoute's catch: renderError('Failed to load page', error.message)
RouteError(id, route, message) ==
    ErrorView("Failed to load page", message, route, id)

\* run r has written its page and returned
Finish(rs, r, view) ==
    /\ runs' = [rs EXCEPT ![r].pc = "done", ![r].out = view]
    /\ finished' = Append(finished, r)

\* The synchronous head of handleHome: four getCached calls under Promise.all;
\* when all four are hits the handler goes on to fetchRecent at once.
StartHome(c, via, route) ==
    LET missing == {k \in HomeKeys : ~CacheValid(c, k, now)}
    IN  /\ runs' = Append(runs, NewRun(via, "handleHome", route,
                       IF missing = {} THEN "recent" ELSE "cached", missing))
        /\ UNCHANGED <<finished, homePostsLoaded>>

\* The synchronous head of handleTrending: on a hit it renders at once.
StartTrending(id, route) ==
    IF CacheValid(cache, "trending", now)
    THEN /\ Show(Page("trending", route, id), <<>>, NoButton)
         /\ Finish(Append(runs, NewRun("nav", "handleTrending", route, "cached", {})),
                   id, Page("trending", route, id))
         /\ UNCHANGED homePostsLoaded
    ELSE /\ Show(Loading(id), <<>>, NoButton)
         /\ runs' = Append(runs, NewRun("nav", "handleTrending", route, "cached",
                                        {"trending"}))
         /\ UNCHANGED <<finished, homePostsLoaded>>

\* handleExplore has no suspension point.
StartExplore(id, route) ==
    /\ Show(Page("explore", route, id), <<>>, NoButton)
    /\ Finish(Append(runs, NewRun("nav", "handleExplore", route, "done", {})),
              id, Page("explore", route, id))
    /\ UNCHANGED homePostsLoaded

\* handleSearch decodes the query before its try block; the error of a
\* malformed escape leaves the handler and is caught by handleRoute.
StartSearch(id, route, params) ==
    LET raw == IF <<"query">> \in DOMAIN params THEN params[<<"query">>] ELSE <<>>
    IN  IF Malformed(raw)
        THEN LET view == RouteError(id, route, "URI malformed")
                 run  == [NewRun("nav", "handleSearch", route, "done", {})
                              EXCEPT !.threw = "URI malformed"]
             IN  /\ Show(view, <<>>, NoButton)
                 /\ Finish(Append(runs, run), id, view)
                 /\ UNCHANGED homePostsLoaded
        ELSE IF decodeURIComponent(raw) = <<>>
        THEN /\ Show(Page("search", route, id), <<>>, NoButton)
             /\ Finish(Append(runs, NewRun("nav", "handleSearch", route, "done", {})),
                       id, Page("search", route, id))
             /\ UNCHANGED homePostsLoaded
        ELSE /\ Show(Loading(id), <<>>, NoButton)
             /\ runs' = Append(runs, NewRun("nav", "handleSearch", route, "search", {}))
             /\ UNCHANGED <<finished, homePostsLoaded>>

\* handleRoute: the loading placeholder, then the handler up to its first
\* suspension point; an error thrown that far is caught here.
handleRoute(id, handler, params, route) ==
    CASE handler = "handleHome" ->
            /\ Show(Loading(id), <<>>, NoButton)
            /\ StartHome(cache, "nav", route)
      [] handler = "handleTrending" -> StartTrending(id, route)
      [] handler = "handleExplore" -> StartExplore(id, route)
      [] handler = "handleSearch" -> StartSearch(id, route, params)

\* render404: renderError('404: Page not found'), with no placeholder first
render404(id, route) ==
    LET view == ErrorView("404: Page not found", "", route, id)
    IN  /\ Show(view, <<>>, NoButton)
        /\ Finish(Append(runs, NewRun("nav", "render404", route, "done", {})), id, view)
        /\ UNCHANGED homePostsLoaded

ModelledHandlers == {"handleHome", "handleTrending", "handleExplore", "handleSearch"}

\* navigate(): hash = window.location.hash.slice(1) || '/'
navigate(h) ==
    LET hash  == IF h = <<>> THEN <<"/">> ELSE h
        match == matchRoute(hash)
        id    == Len(runs) + 1
    IN  /\ currentRoute' = hash
        /\ IF match.found
           THEN /\ match.handler \in ModelledHandlers
                /\ handleRoute(id, match.handler, match.params, hash)
           ELSE render404(id, hash)


\* The tail of handleHome, from the answer of fetchRecent to the return.
RenderHome(r, recentPosts) ==
    LET hasMore     == Len(recentPosts) > homeBatchSize
        postsToShow == Slice(recentPosts, 0, homeBatchSize)
        view        == Page("home", runs[r].route, r)
    IN  /\ homePostsLoaded' = Len(postsToShow)
        /\ Show(view, postsToShow,
                IF hasMore THEN [present |-> TRUE, disabled |-> FALSE, owner |-> r]
                ELSE NoButton)
        /\ filterBar' = [by |-> r, posts |-> postsToShow]
        /\ Finish(runs, r, view)

FailureSwallowed(rs, r, title, message) ==
    /\ runs' = [rs EXCEPT ![r].pc = "done"]
    /\ UNCHANGED <<app, feed, loadMoreBtn, finished>>

\* The catch block of a handler: renderError(title, error.message)
RenderFailure(rs, r, title, message) ==
    LET view == ErrorView(title, message, rs[r].route, r)
    IN  /\ Show(view, <<>>, NoButton)
        /\ Finish(rs, r, view)

(***************************************************************************)
(* RB_APP.init: the first navigation and the poll timer.                   *)
(***************************************************************************)
AppInit(h) ==
    /\ pollTimer = "null"
    /\ runs = <<>>
    /\ navigate(h)
    /\ pollTimer' = "set"
    /\ UNCHANGED <<routeVars, discVars, filterVars, fnVars, chanVars, authVars, gwVars, cacheVars, loads, postLog>>

\* the hashchange listener
Navigate(h) ==
    /\ pollTimer = "set"
    /\ navigate(h)
    /\ UNCHANGED <<routeVars, discVars, filterVars, fnVars, chanVars, authVars, gwVars, cacheVars, pollTimer, loads, postLog>>

\* The answer to the request a getCached producer of run r made for key k.
\* getCached stores under the time its call began; Promise.all rejects on
\* the first rejection and the other requests go on.
CachedSettle(r, k, ok) ==
    /\ k \in runs[r].waiting
    /\ cache' = IF ok THEN CacheStore(cache, k, AppData, runs[r].start) ELSE cache
    /\ LET rs == [runs EXCEPT ![r].waiting = @ \ {k}]
       IN  IF runs[r].pc # "cached"
           THEN /\ runs' = rs
                /\ UNCHANGED <<app, feed, loadMoreBtn, finished>>
           ELSE IF ~ok
           THEN RenderFailure(rs, r,
                    IF runs[r].handler = "handleHome" THEN "Failed to load home page"
                    ELSE "Failed to load trending", FetchFailed)
           ELSE IF rs[r].waiting # {}
           THEN /\ runs' = rs
                /\ UNCHANGED <<app, feed, loadMoreBtn, finished>>
           ELSE IF runs[r].handler = "handleHome"
           THEN /\ runs' = [rs EXCEPT ![r].pc = "recent"]
                /\ UNCHANGED <<app, feed, loadMoreBtn, finished>>
           ELSE /\ Show(Page("trending", runs[r].route, r), <<>>, NoButton)
                /\ Finish(rs, r, Page("trending", runs[r].route, r))
    /\ UNCHANGED <<routeVars, discVars, filterVars, fnVars, chanVars, authVars, gwVars, now, calls, clears, pollTimer, currentRoute,
                   homePostsLoaded, loads, postLog>>

\* The answer to fetchRecent's request for state/posted_log.json.
RecentSettle(r, ok) ==
    /\ runs[r].pc = "recent"
    /\ IF ok
       THEN RenderHome(r, RecentFromLog(postLog, homeBatchSize + 1))
       ELSE /\ runs' = [runs EXCEPT ![r].pc = "rest", ![r].fellBack = TRUE]
            /\ UNCHANGED <<app, feed, loadMoreBtn, finished, homePostsLoaded,
                           filterBar>>
    /\ UNCHANGED <<routeVars, discVars, fnVars, chanVars, authVars, gwVars, cacheVars, pollTimer,
                   currentRoute, loads, postLog>>

\* The answer to fetchDiscussionsREST's request; a failure yields [].
RestSettle(r, ok) ==
    /\ runs[r].pc = "rest"
    /\ RenderHome(r, IF ok THEN RestPosts(postLog, homeBatchSize + 1) ELSE <<>>)
    /\ UNCHANGED <<routeVars, discVars, fnVars, chanVars, authVars, gwVars, cacheVars, pollTimer,
                   currentRoute, loads, postLog>>

\* The answer to searchDiscussions' request; a failure yields [].
SearchSettle(r, ok) ==
    /\ runs[r].pc = "search"
    /\ Show(Page("search", runs[r].route, r),
            IF ok THEN SearchResults ELSE <<>>, NoButton)
    /\ Finish(runs, r, Page("search", runs[r].route, r))
    /\ UNCHANGED <<routeVars, discVars, filterVars, fnVars, chanVars, authVars, gwVars, cacheVars, pollTimer, currentRoute, homePostsLoaded,
                   loads, postLog>>

(***************************************************************************)
(* RB_APP.startPolling: the interval callback.                             *)
(***************************************************************************)
TickCacheOnHomeOnly(c, route) == IF route = <<"/">> THEN EmptyCache ELSE c

\* RB_STATE.cache = {};
TickCache(c, route) == EmptyCache

TickDue == pollTimer = "set" /\ now = (clears + 1) * pollInterval

PollTick ==
    /\ TickDue
    /\ clears' = clears + 1
    /\ cache' = TickCache(cache, currentRoute)
    /\ IF currentRoute = <<"/">>
       THEN StartHome(cache', "poll", currentRoute)
       ELSE UNCHANGED <<runs, finished, homePostsLoaded>>
    /\ UNCHANGED <<routeVars, discVars, filterVars, fnVars, chanVars, authVars, gwVars, now, calls, pollTimer, currentRoute, app, feed,
                   loadMoreBtn, loads, postLog>>

\* Time passes; the interval callback runs when it is due.
AppAdvanceClock(step) ==
    /\ pollTimer = "set"
    /\ ~TickDue
    /\ now' = now + step
    /\ UNCHANGED <<routeVars, discVars, filterVars, fnVars, chanVars, authVars, gwVars, cache, calls, clears, appVars>>


(***************************************************************************)
(* attachLoadMoreHandler: the click listener of the load-more button.      *)
(***************************************************************************)
LoadIds == 1..Len(loads)

\* document.getElementById('feed-container') finds one on these pages
HasFeedContainer(view) == view.kind = "page" /\ view.page \in {"home", "search"}

\* The listener up to its await: the button is disabled and the request for
\* offset + batchSize + 1 posts leaves.  A disabled button takes no click.
LoadMoreClick ==
    /\ loadMoreBtn.present
    /\ ~loadMoreBtn.disabled
    /\ loadMoreBtn' = [loadMoreBtn EXCEPT !.disabled = TRUE]
    /\ loads' = Append(loads, [btn |-> loadMoreBtn.owner, offset |-> homePostsLoaded,
                               pc |-> "log", fellBack |-> FALSE])
    /\ UNCHANGED <<routeVars, discVars, filterVars, fnVars, chanVars, authVars, gwVars, cacheVars, pollTimer, currentRoute, app, feed,
                   homePostsLoaded, runs, postLog, finished>>

\* The listener from the answer of fetchRecent to its end.  btn is the button
\* this listener was attached to, whether or not the page still holds it.
LoadMoreRender(l, allPosts) ==
    LET offset   == loads[l].offset
        newPosts == Slice(allPosts, offset, offset + homeBatchSize)
        hasMore  == Len(allPosts) > offset + homeBatchSize
        mine     == loadMoreBtn.present /\ loadMoreBtn.owner = loads[l].btn
    IN  /\ homePostsLoaded' = offset + Len(newPosts)
        /\ feed' = IF HasFeedContainer(app) /\ Len(newPosts) > 0
                   THEN feed \o newPosts ELSE feed
        /\ loadMoreBtn' = IF ~mine THEN loadMoreBtn
                          ELSE IF hasMore THEN [loadMoreBtn EXCEPT !.disabled = FALSE]
                          ELSE NoButton
        /\ loads' = [loads EXCEPT ![l].pc = "done"]

LoadMoreLogSettle(l, ok) ==
    /\ loads[l].pc = "log"
    /\ IF ok
       THEN LoadMoreRender(l, RecentFromLog(postLog, loads[l].offset + homeBatchSize + 1))
       ELSE /\ loads' = [loads EXCEPT ![l].pc = "rest", ![l].fellBack = TRUE]
            /\ UNCHANGED <<homePostsLoaded, feed, loadMoreBtn>>
    /\ UNCHANGED <<routeVars, discVars, filterVars, fnVars, chanVars, authVars, gwVars, cacheVars, pollTimer, currentRoute, app, runs,
                   postLog, finished>>

LoadMoreRestSettle(l, ok) ==
    /\ loads[l].pc = "rest"
    /\ LoadMoreRender(l, IF ok THEN RestPosts(postLog, loads[l].offset + homeBatchSize + 1)
                         ELSE <<>>)
    /\ UNCHANGED <<routeVars, discVars, filterVars, fnVars, chanVars, authVars, gwVars, cacheVars, pollTimer, currentRoute, app, runs,
                   postLog, finished>>

(***************************************************************************)
(* The page under navigations, answers and poll ticks.                     *)
(***************************************************************************)
MaxRuns == 2

MaxAppTicks == 1

MaxAppLoads == 1

NavHashes ==
    { <<>>, <<"/", "trending">>, <<"/", "explore">>, <<"/", "search", "/", "x">>,
      <<"/", "search", "/", "%">>, <<"/", "nope">> }

AppPostCounts == {25}

InitApp ==
    /\ RouteIdle
    /\ CacheIdle
    /\ DiscIdle
    /\ FilterIdle
    /\ FnIdle
    /\ ChannelIdle
    /\ AuthIdle
    /\ GatewayIdle
    /\ pollTimer = "null"
    /\ currentRoute = <<>>
    /\ app = EmptyView
    /\ feed = <<>>
    /\ loadMoreBtn = NoButton
    /\ homePostsLoaded = 0
    /\ runs = <<>>
    /\ loads = <<>>
    /\ postLog \in AppPostCounts
    /\ finished = <<>>

Answer ==
    \/ \E r \in RunIds, k \in HomeKeys, ok \in BOOLEAN : CachedSettle(r, k, ok)
    \/ \E r \in RunIds, ok \in BOOLEAN : RecentSettle(r, ok)
    \/ \E r \in RunIds, ok \in BOOLEAN : RestSettle(r, ok)
    \/ \E r \in RunIds, ok \in BOOLEAN : SearchSettle(r, ok)
    \/ \E l \in LoadIds, ok \in BOOLEAN : LoadMoreLogSettle(l, ok)
    \/ \E l \in LoadIds, ok \in BOOLEAN : LoadMoreRestSettle(l, ok)

\* the runs with a request still unanswered
Busy == {r \in RunIds : runs[r].pc # "done" \/ runs[r].waiting # {}}

\* A tick on the home page starts a run.
RoomForTick(maxRuns, maxBusy) ==
    currentRoute = <<"/">> => Len(runs) < maxRuns /\ Cardinality(Busy) < maxBusy

NextApp ==
    \/ \E h \in NavHashes : AppInit(h)
    \/ Len(runs) < MaxRuns /\ \E h \in NavHashes : Navigate(h)
    \/ Answer
    \/ Len(loads) < MaxAppLoads /\ LoadMoreClick
    \/ clears < MaxAppTicks /\ RoomForTick(MaxRuns, MaxRuns) /\ PollTick
    \/ now < MaxAppTicks * pollInterval /\ AppAdvanceClock(pollInterval \div 2)

SpecApp == InitApp /\ [][NextApp]_vars

FairSpecApp == SpecApp /\ WF_vars(Answer)

(***************************************************************************)
(* The poll timer over several intervals, on the home page and off it.     *)
(***************************************************************************)
MaxPollRuns == 4

MaxPollBusy == 1

MaxTicks == 2

PollHashes == { <<>>, <<"/", "explore">> }

NextPoll ==
    \/ \E h \in PollHashes : AppInit(h)
    \/ /\ Len(runs) < MaxPollRuns
       /\ Cardinality(Busy) < MaxPollBusy
       /\ \E h \in PollHashes : Navigate(h)
    \/ \E r \in RunIds, k \in HomeKeys, ok \in BOOLEAN : CachedSettle(r, k, ok)
    \/ \E r \in RunIds, ok \in BOOLEAN : RecentSettle(r, ok)
    \/ \E r \in RunIds, ok \in BOOLEAN : RestSettle(r, ok)
    \/ clears < MaxTicks /\ RoomForTick(MaxPollRuns, MaxPollBusy) /\ PollTick
    \/ now < MaxTicks * pollInterval /\ AppAdvanceClock(pollInterval)

SpecPoll == InitApp /\ [][NextPoll]_vars


(***************************************************************************)
(* The home feed on its own: one load of the home page, then load-more     *)
(* clicks, over a post log of any size.                                    *)
(***************************************************************************)
MaxPosts == 45

MaxHomeLoads == 2

InitHome ==
    /\ RouteIdle
    /\ CacheIdle
    /\ DiscIdle
    /\ FilterIdle
    /\ FnIdle
    /\ ChannelIdle
    /\ AuthIdle
    /\ GatewayIdle
    /\ pollTimer = "null"
    /\ currentRoute = <<>>
    /\ app = EmptyView
    /\ feed = <<>>
    /\ loadMoreBtn = NoButton
    /\ homePostsLoaded = 0
    /\ runs = <<>>
    /\ loads = <<>>
    /\ postLog \in 0..MaxPosts
    /\ finished = <<>>

NextHome ==
    \/ AppInit(<<>>)
    \/ \E r \in RunIds, k \in HomeKeys, ok \in BOOLEAN : CachedSettle(r, k, ok)
    \/ \E r \in RunIds, ok \in BOOLEAN : RecentSettle(r, ok)
    \/ \E r \in RunIds, ok \in BOOLEAN : RestSettle(r, ok)
    \/ Len(loads) < MaxHomeLoads /\ LoadMoreClick
    \/ \E l \in LoadIds, ok \in BOOLEAN : LoadMoreLogSettle(l, ok)
    \/ \E l \in LoadIds, ok \in BOOLEAN : LoadMoreRestSettle(l, ok)

SpecHome == InitHome /\ [][NextHome]_vars


(***************************************************************************)
(* The discussions gateway: the operations that write to the platform.     *)
(* An operation runs from its call to its first request in one task; each  *)
(* answer resumes it.                                                      *)
(***************************************************************************)
MaxOps == 2

Mutations ==
    {"addReaction", "removeReaction", "updateComment", "deleteComment",
     "createDiscussion", "postComment", "postReply"}

\* the stored values of rb_access_token: none, an empty string, a token
Tokens == {Null, "", "gho_token"}

OpIds == 1..Len(ops)

TokenIgnored(t) == FALSE

\* !token
NoToken(t) == t = Null \/ t = ""

Request(o, kind) == [op |-> o, kind |-> kind]

\* graphql(query, variables) up to its fetch, called by operation o in step
\* `step`: the operation rejects, or its request leaves.
graphql(os, o, step) ==
    IF NoToken(token)
    THEN /\ ops' = [os EXCEPT ![o].pc = "rejected", ![o].error = "Not authenticated"]
         /\ requests' = requests
    ELSE /\ ops' = [os EXCEPT ![o].pc = step]
         /\ requests' = Append(requests, Request(o, "graphql"))

\* The call of a gateway operation, up to its first suspension point.
Call(name) ==
    LET o  == Len(ops) + 1
        os == Append(ops, [name |-> name, pc |-> "called", error |-> "",
                           tokenAtCall |-> token, status |-> 0])
    IN  /\ CASE name \in {"addReaction", "removeReaction", "updateComment",
                          "deleteComment"} ->
                    graphql(os, o, "mutation")
              [] name = "createDiscussion" ->
                    \* fetchRepoId answers from _repoInfo when it is set
                    IF repoInfo THEN graphql(os, o, "mutation")
                    ELSE graphql(os, o, "repoId")
              [] name = "postComment" ->
                    IF NoToken(token)
                    THEN /\ ops' = [os EXCEPT ![o].pc = "rejected",
                                              ![o].error = "Not authenticated"]
                         /\ requests' = requests
                    ELSE /\ ops' = [os EXCEPT ![o].pc = "post"]
                         /\ requests' = Append(requests, Request(o, "rest-post"))
              [] name = "postReply" ->
                    IF NoToken(token)
                    THEN /\ ops' = [os EXCEPT ![o].pc = "rejected",
                                              ![o].error = "Not authenticated"]
                         /\ requests' = requests
                    ELSE /\ ops' = [os EXCEPT ![o].pc = "discussion"]
                         /\ requests' = Append(requests, Request(o, "rest-get"))
        /\ UNCHANGED <<routeVars, discVars, filterVars, fnVars, chanVars, authVars, cacheVars, appVars, token, repoInfo>>

\* The answer to the repository query of fetchRepoId, then the mutation.
RepoIdSettle(o, ok) ==
    /\ ops[o].pc = "repoId"
    /\ IF ok
       THEN /\ repoInfo' = TRUE
            /\ graphql(ops, o, "mutation")
       ELSE /\ ops' = [ops EXCEPT ![o].pc = "rejected",
                                  ![o].error = "GraphQL request failed"]
            /\ UNCHANGED <<repoInfo, requests>>
    /\ UNCHANGED <<routeVars, discVars, filterVars, fnVars, chanVars, authVars, cacheVars, appVars, token>>

\* The answer to fetchDiscussion's request in postReply, then the mutation.
DiscussionSettle(o, found) ==
    /\ ops[o].pc = "discussion"
    /\ IF found
       THEN graphql(ops, o, "mutation")
       ELSE /\ ops' = [ops EXCEPT ![o].pc = "rejected",
                                  ![o].error = "Discussion not found"]
            /\ UNCHANGED requests
    /\ UNCHANGED <<routeVars, discVars, filterVars, fnVars, chanVars, authVars, cacheVars, appVars, token, repoInfo>>

\* response.ok
Ok(status) == status \in 200..299

\* The answer to a mutation's GraphQL request.
MutationSettle(o, status) ==
    /\ ops[o].pc = "mutation"
    /\ ops' = [ops EXCEPT ![o].pc = IF Ok(status) THEN "resolved" ELSE "rejected",
                          ![o].error = IF Ok(status) THEN ""
                                       ELSE "GraphQL request failed",
                          ![o].status = status]
    /\ UNCHANGED <<routeVars, discVars, filterVars, fnVars, chanVars, authVars, cacheVars, appVars, token, repoInfo, requests>>

\* The answer to postComment's POST.
PostSettle(o, status) ==
    /\ ops[o].pc = "post"
    /\ ops' = [ops EXCEPT ![o].pc = IF Ok(status) THEN "resolved" ELSE "rejected",
                          ![o].error = IF Ok(status) THEN ""
                                       ELSE "Failed to post comment",
                          ![o].status = status]
    /\ UNCHANGED <<routeVars, discVars, filterVars, fnVars, chanVars, authVars, cacheVars, appVars, token, repoInfo, requests>>

\* RB_AUTH.setToken(t); RB_AUTH.clearToken() when t is null, which removes
\* the cached identity too
StoreToken(t) ==
    /\ token' = t
    /\ token' # token
    /\ user' = IF t = Null THEN Null ELSE user
    /\ UNCHANGED <<routeVars, discVars, filterVars, fnVars, chanVars, cacheVars, appVars,
                   repoInfo, ops, requests>>

\* the statuses a request is answered with
Statuses == {200, 401, 500}

\* RB_AUTH.getUser up to its fetch: the cached identity, null with no
\* token, or the request to /user
GetUser ==
    LET o  == Len(ops) + 1
        op == [name |-> "getUser", pc |-> "resolved", error |-> "",
               tokenAtCall |-> token, status |-> 0]
    IN  /\ IF user # Null \/ NoToken(token)
           THEN /\ ops' = Append(ops, op)
                /\ requests' = requests
           ELSE /\ ops' = Append(ops, [op EXCEPT !.pc = "user"])
                /\ requests' = Append(requests, Request(o, "rest-get"))
        /\ UNCHANGED <<routeVars, discVars, filterVars, fnVars, chanVars, authVars, cacheVars,
                       appVars, token, repoInfo>>

\* The answer to getUser's request: the identity is cached on success, the
\* credential and the identity are removed on 401; getUser never rejects.
UserSettle(o, status) ==
    /\ ops[o].pc = "user"
    /\ ops' = [ops EXCEPT ![o].pc = "resolved", ![o].status = status]
    /\ IF Ok(status)
       THEN user' = "octocat" /\ token' = token
       ELSE IF status = 401
       THEN user' = Null /\ token' = Null
       ELSE user' = user /\ token' = token
    /\ UNCHANGED <<routeVars, discVars, filterVars, fnVars, chanVars, cacheVars, appVars,
                   repoInfo, requests>>

InitGateway ==
    /\ RouteIdle
    /\ CacheIdle
    /\ DiscIdle
    /\ FilterIdle
    /\ FnIdle
    /\ ChannelIdle
    /\ AppIdle
    /\ token \in Tokens
    /\ user \in {Null, "octocat"}
    /\ repoInfo \in BOOLEAN
    /\ ops = <<>>
    /\ requests = <<>>

NextGateway ==
    \/ Len(ops) < MaxOps /\ \E name \in Mutations : Call(name)
    \/ \E o \in OpIds, ok \in BOOLEAN : RepoIdSettle(o, ok)
    \/ \E o \in OpIds, found \in BOOLEAN : DiscussionSettle(o, found)
    \/ \E o \in OpIds, status \in Statuses : MutationSettle(o, status)
    \/ \E o \in OpIds, status \in Statuses : PostSettle(o, status)
    \/ \E t \in Tokens : StoreToken(t)
    \/ Len(ops) < MaxOps /\ GetUser
    \/ \E o \in OpIds, status \in Statuses : UserSettle(o, status)

SpecGateway == InitGateway /\ [][NextGateway]_vars

\* C10: a mutating operation called with no credential stored is rejected
\* with 'Not authenticated' and issues no network request.
C10_NoCredentialNoRequest ==
    \A o \in OpIds :
        (ops[o].name \in Mutations /\ ops[o].tokenAtCall \in {Null, ""}) =>
            /\ ops[o].pc = "rejected"
            /\ ops[o].error = "Not authenticated"
            /\ \A i \in DOMAIN requests : requests[i].op # o

\* createDiscussion, called after the credential was removed and with the
\* repository id cached by an earlier call, is rejected and adds no request.
C10_Witness ==
    /\ Len(ops) = 2
    /\ ops[1].name = "createDiscussion" /\ ops[1].pc = "mutation"
    /\ ops[2].name = "createDiscussion" /\ ops[2].tokenAtCall = Null
    /\ ops[2].error = "Not authenticated"
    /\ repoInfo
    /\ Len(requests) = 2


(***************************************************************************)
(* C3, C4, C5: dispatch.                                                   *)
(***************************************************************************)
Last(q) == q[Len(q)]

\* the runs a navigation started, and those whose handler threw to handleRoute
Dispatched(r) == runs[r].via = "nav"

Threw(r) == runs[r].threw # ""

\* the views a handler of the model writes when one of its own requests fails
OwnFailure(view) ==
    /\ view.kind = "error"
    /\ view.title \in {"Failed to load home page", "Failed to load trending"}
    /\ view.detail = FetchFailed

PageOf(handler) ==
    CASE handler = "handleHome" -> "home"
      [] handler = "handleTrending" -> "trending"
      [] handler = "handleExplore" -> "explore"
      [] handler = "handleSearch" -> "search"
      [] OTHER -> ""

\* C3: a dispatch whose handler threw has ended with the generic error view
\* 'Failed to load page' carrying the error's message, which is what the page
\* shows until something else writes it; and every navigation made after such a
\* failure is still matched against the route table, dispatched to the handler
\* of its route, and ends with that handler's page (or that handler's own error
\* view when one of its requests failed).
C3_ThrowEndsInErrorViewAndIsIsolated ==
    \A r \in RunIds :
        /\ Threw(r) =>
              /\ runs[r].pc = "done"
              /\ runs[r].out = ErrorView("Failed to load page", runs[r].threw,
                                         runs[r].route, r)
              /\ (Len(runs) = r /\ Last(finished) = r) => app = runs[r].out
        /\ (Dispatched(r) /\ ~Threw(r) /\ \E q \in 1..(r - 1) : Threw(q)) =>
              LET m == matchRoute(runs[r].route)
              IN  /\ m.found => runs[r].handler = m.handler
                  /\ ~m.found => runs[r].handler = "render404"
                  /\ (m.found /\ runs[r].pc = "done") =>
                        \/ runs[r].out = Page(PageOf(m.handler), runs[r].route, r)
                        \/ OwnFailure(runs[r].out)
                  /\ (m.found /\ runs[r].pc # "done") =>
                        \/ runs[r].waiting # {}
                        \/ runs[r].pc \in {"recent", "rest", "search"}

\* A navigation to '/' made after a handler threw has rendered the home page.
C3_Witness ==
    /\ Len(runs) = 2
    /\ Threw(1)
    /\ runs[1].out.detail = "URI malformed"
    /\ runs[2].handler = "handleHome"
    /\ runs[2].pc = "done"
    /\ app = Page("home", <<"/">>, 2)
    /\ Len(feed) = homeBatchSize

\* C4: whenever the page shows the loading placeholder it later shows
\* something else, given that every request is answered.
C4_LoadingEnds == (app.kind = "loading") ~> (app.kind # "loading")

\* Two dispatches and a poll tick have come and gone, each dispatch having put
\* up the placeholder and replaced it.
C4_Witness ==
    /\ Len(runs) = 2
    /\ \A r \in RunIds : Dispatched(r) /\ runs[r].pc = "done" /\ runs[r].waiting = {}
    /\ runs[1].handler = "handleHome" /\ OwnFailure(runs[1].out)
    /\ runs[2].handler = "handleSearch" /\ runs[2].out.kind = "page"
    /\ clears = 1
    /\ app.kind = "page"

\* C5: a navigation leaves the runs already in flight as they are; every run
\* that has ended wrote its own page; and the page shown is the one written by
\* the run that ended last (or the placeholder of a dispatch still in flight).
C5_LastFinisherWins ==
    /\ \A i \in DOMAIN finished :
          /\ runs[finished[i]].pc = "done"
          /\ runs[finished[i]].out.by = finished[i]
          /\ runs[finished[i]].out.kind \in {"page", "error"}
    /\ \A r \in RunIds :
          runs[r].pc = "done" => \E i \in DOMAIN finished : finished[i] = r
    /\ app.kind \in {"page", "error"} =>
          finished # <<>> /\ app = runs[Last(finished)].out
    /\ app.kind = "loading" => app.by \in RunIds /\ runs[app.by].pc # "done"

\* Two navigations overlapped, the earlier one ended last, and the page shown
\* is the earlier one's, not that of currentRoute.
C5_Witness ==
    /\ finished = <<2, 1>>
    /\ Dispatched(1) /\ Dispatched(2)
    /\ runs[1].start = runs[2].start
    /\ currentRoute = runs[2].route
    /\ app = runs[1].out
    /\ app.kind = "page"
    /\ runs[2].out.kind = "page"
    /\ app.route # currentRoute

(***************************************************************************)
(* C9: polling.                                                            *)
(***************************************************************************)
\* C9: every tick, one per 60 s, empties the cache whatever the route and
\* whatever became of earlier requests; it starts handleHome when and only
\* when currentRoute is '/'; and nothing ever stops the timer.
C9_TickClearsAlwaysRefreshesHomeOnly ==
    [][ /\ pollTimer = "set" => pollTimer' = "set"
        /\ clears' # clears =>
              /\ clears' = clears + 1
              /\ now = clears' * pollInterval
              /\ cache' = EmptyCache
              /\ IF currentRoute = <<"/">>
                 THEN /\ Len(runs') = Len(runs) + 1
                      /\ Last(runs').handler = "handleHome"
                      /\ Last(runs').via = "poll"
                      /\ SubSeq(runs', 1, Len(runs)) = runs
                 ELSE runs' = runs
      ]_vars

\* The home refresh of the first tick failed, and the second tick came all the
\* same, emptied the cache again and started another refresh.
C9_Witness ==
    /\ clears = 2
    /\ \E r \in RunIds : \E q \in RunIds :
          /\ r < q
          /\ runs[r].via = "poll" /\ OwnFailure(runs[r].out)
          /\ runs[q].via = "poll"
    /\ cache = EmptyCache

(***************************************************************************)
(* C6: the home feed.                                                      *)
(***************************************************************************)
\* the load-more clicks that have run to their end
Completed == {l \in LoadIds : loads[l].pc = "done"}

\* every post list read so far came from the post log
ReadFromLog ==
    /\ \A r \in RunIds : ~runs[r].fellBack
    /\ \A l \in LoadIds : ~loads[l].fellBack

\* C6: once the home page has loaded from a log of M posts, after k completed
\* load-more clicks the feed is the min(M, 20(k+1)) newest posts, newest first,
\* and the load-more control is there exactly when M > 20(k+1).
C6_FeedAfterLoadMore ==
    (Len(runs) = 1 /\ runs[1].pc = "done" /\ runs[1].out.kind = "page" /\ ReadFromLog) =>
        LET k == Cardinality(Completed)
            n == Min(postLog, homeBatchSize * (k + 1))
        IN  /\ feed = [i \in 1..n |-> postLog - i + 1]
            /\ loadMoreBtn.present <=> postLog > homeBatchSize * (k + 1)

\* 25 posts: 20 and the control, then one click appends 5 and removes it.
C6_Witness ==
    /\ postLog = 25
    /\ Len(runs) = 1 /\ runs[1].pc = "done" /\ ReadFromLog
    /\ Cardinality(Completed) = 1
    /\ Len(feed) = 25
    /\ feed[1] = 25 /\ feed[25] = 1
    /\ ~loadMoreBtn.present

(***************************************************************************)
(* The type filter bar of the home page (router.js attachTypeFilter,       *)
(* render.js detectPostType).  A title is a sequence of symbols whose      *)
(* first may be a type tag.                                                *)
(***************************************************************************)
\* RB_RENDER.detectPostType's tagMap, in order; a tag stands for every
\* title prefix its pattern matches
tagMap ==
  <<
    [tag |-> "[SPACE:PRIVATE:n]", type |-> "private-space"],
    [tag |-> "[SPACE:PRIVATE]", type |-> "private-space"],
    [tag |-> "[SPACE]", type |-> "space"],
    [tag |-> "[PREDICTION]", type |-> "prediction"],
    [tag |-> "[DEBATE]", type |-> "debate"],
    [tag |-> "[REFLECTION]", type |-> "reflection"],
    [tag |-> "[TIMECAPSULE]", type |-> "timecapsule"],
    [tag |-> "[ARCHAEOLOGY]", type |-> "archaeology"],
    [tag |-> "[FORK]", type |-> "fork"],
    [tag |-> "[AMENDMENT]", type |-> "amendment"],
    [tag |-> "[PROPOSAL]", type |-> "proposal"],
    [tag |-> "[SUMMON]", type |-> "summon"],
    [tag |-> "[TOURNAMENT]", type |-> "tournament"],
    [tag |-> "[CIPHER]", type |-> "cipher"],
    [tag |-> "p/place", type |-> "public-place"]
  >>

\* the first tag of tagMap the title begins with decides the type
detectPostType(title) ==
    LET hits == {i \in DOMAIN tagMap : title # <<>> /\ title[1] = tagMap[i].tag}
    IN  IF hits = {} THEN "default"
        ELSE tagMap[CHOOSE i \in hits : \A j \in hits : i <= j].type

\* the titles of the posts of the log and of the platform
TitleOf(p) ==
    CASE p % 4 = 0 -> <<"[SPACE]", "a title">>
      [] p % 4 = 1 -> <<"[DEBATE]", "a title">>
      [] p % 4 = 2 -> <<"a title">>
      [] p % 4 = 3 -> <<"[CIPHER]", "a title">>

\* renderTypeFilterBar: the data-type of the pills
PillTypes == {"all", "space", "private-space", "debate", "prediction",
              "proposal", "summon", "cipher"}

\* posts.filter(p => detectPostType(p.title).type === selectedType)
FilterPosts(posts, selectedType) ==
    IF selectedType = "all" THEN posts
    ELSE SelectSeq(posts, LAMBDA p : detectPostType(TitleOf(p)) = selectedType)

\* A click on a pill of the bar of the home page shown: the listener
\* re-renders the feed from the posts it was attached with.
TypeFilterClick(selectedType) ==
    /\ app.kind = "page"
    /\ app.page = "home"
    /\ filterBar.by = app.by
    /\ feed' = FilterPosts(filterBar.posts, selectedType)
    /\ UNCHANGED <<routeVars, cacheVars, gwVars, discVars, filterVars, fnVars, chanVars, authVars>>
    /\ UNCHANGED <<pollTimer, currentRoute, app, loadMoreBtn, homePostsLoaded,
                   runs, loads, postLog, finished>>

MaxFilterPosts == 45
MaxFilterLoads == 1

InitFilter ==
    /\ RouteIdle
    /\ CacheIdle
    /\ DiscIdle
    /\ FilterIdle
    /\ FnIdle
    /\ ChannelIdle
    /\ AuthIdle
    /\ GatewayIdle
    /\ pollTimer = "null"
    /\ currentRoute = <<>>
    /\ app = EmptyView
    /\ feed = <<>>
    /\ loadMoreBtn = NoButton
    /\ homePostsLoaded = 0
    /\ runs = <<>>
    /\ loads = <<>>
    /\ postLog \in 0..MaxFilterPosts
    /\ finished = <<>>

NextFilter ==
    \/ AppInit(<<>>)
    \/ \E r \in RunIds, k \in HomeKeys, ok \in BOOLEAN : CachedSettle(r, k, ok)
    \/ \E r \in RunIds, ok \in BOOLEAN : RecentSettle(r, ok)
    \/ \E r \in RunIds, ok \in BOOLEAN : RestSettle(r, ok)
    \/ Len(loads) < MaxFilterLoads /\ LoadMoreClick
    \/ \E l \in LoadIds, ok \in BOOLEAN : LoadMoreLogSettle(l, ok)
    \/ \E l \in LoadIds, ok \in BOOLEAN : LoadMoreRestSettle(l, ok)
    \/ \E selectedType \in PillTypes : TypeFilterClick(selectedType)

SpecFilter == InitFilter /\ [][NextFilter]_vars

\* the posts fetched for the page shown: the first batch and the batch of
\* every completed load-more, all read from the post log
Fetched ==
    LET n == Min(postLog, homeBatchSize * (Cardinality(Completed) + 1))
    IN  [i \in 1..n |-> postLog - i + 1]

\* C14: a click on a type pill shows exactly the posts fetched so far on
\* this visit (first batch and every completed load-more) whose title has
\* the selected type, all of them for 'all', and starts no request.
C14_FilterShowsAllFetched ==
    [][\A selectedType \in PillTypes :
          (TypeFilterClick(selectedType) /\ Len(runs) = 1 /\ ReadFromLog) =>
              /\ feed' = FilterPosts(Fetched, selectedType)
              /\ runs' = runs /\ loads' = loads /\ requests' = requests]_vars

(***************************************************************************)
(* The discussion page (router.js handleDiscussion, reloadDiscussion,      *)
(* attachVoteHandlers, attachReactionHandlers).  The page loads the        *)
(* thread and its comments, renders them and registers click listeners on  *)
(* #app, the element whose content every page replaces and which itself    *)
(* stays for the life of the document.  One reaction kind stands for the   *)
(* eight; private spaces are left out.                                     *)
(***************************************************************************)
MaxDiscRuns == 2
MaxClicks == 2
MaxDiscBusy == 1

DiscussionNumbers == {"7", "8"}

DRunIds == 1..Len(dRuns)

ClickIds == 1..Len(clicks)

Controls == {"vote", "react", "unreact"}

\* what the discussion request is answered with when the thread exists:
\* its +1 count and the count of the modelled reaction
Threads == { [state |-> "found", upvotes |-> 0, reactions |-> 1],
             [state |-> "found", upvotes |-> 2, reactions |-> 2] }

PendingThread == [state |-> "pending", upvotes |-> 0, reactions |-> 0]

\* fetchDiscussion's null: a status that is not ok, or a transport error
NullThread == [state |-> "null", upvotes |-> 0, reactions |-> 0]

Read(r, kind) == [run |-> r, kind |-> kind]

AlwaysAuthenticated(t) == TRUE

\* RB_AUTH.isAuthenticated(): !!this.getToken()
isAuthenticated(t) == ~(t = Null \/ t = "")

\* Promise.all([fetchDiscussion(n), fetchComments(n)]): both fetches leave
\* before the handler suspends
FetchBoth(via, n, route) ==
    LET id == Len(dRuns) + 1
    IN  /\ dRuns' = Append(dRuns, [via |-> via, number |-> n, route |-> route,
                                   discussion |-> PendingThread,
                                   comments |-> "pending", pc |-> "await"])
        /\ reads' = reads \o <<Read(id, "discussion"), Read(id, "comments")>>

\* the buttons renderDiscussionDetail writes for a thread: no vote button
\* carries the voted class, a reaction with a positive count is active
RenderedButtons(r, d) ==
    [by |-> r, voted |-> FALSE, voteCount |-> d.upvotes,
     active |-> IF d.reactions > 0 THEN "active" ELSE "absent",
     reactionCount |-> d.reactions, disabled |-> {}]

\* the six attach calls: each adds its listeners to #app once more
AttachHandlers(n) == Append(listeners, n)

\* The tail of handleDiscussion and of reloadDiscussion, run once both
\* requests of run r are answered.
RenderDiscussion(rs, r) ==
    LET run  == rs[r]
        d    == run.discussion
        gone == ErrorView("Discussion not found", "", run.route, r)
        page == Page("discussion", run.route, r)
    IN  IF d.state = "null"
        THEN /\ Show(gone, <<>>, NoButton)
             /\ buttons' = NoButtons
             /\ listeners' = IF run.via = "reload"
                             THEN AttachHandlers(run.number) ELSE listeners
        ELSE /\ Show(page, <<>>, NoButton)
             /\ buttons' = RenderedButtons(r, d)
             /\ listeners' = AttachHandlers(run.number)

\* navigate() to #/discussions/n: the loading placeholder, then
\* handleDiscussion up to its await
DiscussionNavigate(n) ==
    LET hash  == <<"/", "discussions", "/", n>>
        match == matchRoute(hash)
        id    == Len(dRuns) + 1
    IN  /\ match.found
        /\ match.handler = "handleDiscussion"
        /\ currentRoute' = hash
        /\ Show(Loading(id), <<>>, NoButton)
        /\ buttons' = NoButtons
        /\ FetchBoth("nav", match.params[<<"number">>], hash)
        /\ UNCHANGED <<listeners, clicks, logins>>
        /\ UNCHANGED <<routeVars, cacheVars, gwVars, filterVars, fnVars, chanVars, authVars>>
        /\ UNCHANGED <<pollTimer, homePostsLoaded, runs, loads, postLog, finished>>

\* run r has both answers after this one
LastAnswer(r, kind) ==
    IF kind = "discussion" THEN dRuns[r].comments # "pending"
    ELSE dRuns[r].discussion.state # "pending"

\* The answer to the discussion request of run r: the thread, or null.
DiscussionRead(r, answer) ==
    /\ dRuns[r].pc = "await"
    /\ dRuns[r].discussion.state = "pending"
    /\ LET rs == [dRuns EXCEPT ![r].discussion = answer,
                               ![r].pc = IF LastAnswer(r, "discussion")
                                         THEN "done" ELSE "await"]
       IN  /\ dRuns' = rs
           /\ IF LastAnswer(r, "discussion")
              THEN RenderDiscussion(rs, r)
              ELSE UNCHANGED <<app, feed, loadMoreBtn, buttons, listeners>>
    /\ UNCHANGED <<reads, clicks, logins>>
    /\ UNCHANGED <<routeVars, cacheVars, gwVars, filterVars, fnVars, chanVars, authVars>>
    /\ UNCHANGED <<pollTimer, currentRoute, homePostsLoaded, runs, loads, postLog,
                   finished>>

\* The answer to the comments request of run r: the list, or [] on failure.
CommentsRead(r, ok) ==
    /\ dRuns[r].pc = "await"
    /\ dRuns[r].comments = "pending"
    /\ LET rs == [dRuns EXCEPT ![r].comments = IF ok THEN "list" ELSE "empty",
                               ![r].pc = IF LastAnswer(r, "comments")
                                         THEN "done" ELSE "await"]
       IN  /\ dRuns' = rs
           /\ IF LastAnswer(r, "comments")
              THEN RenderDiscussion(rs, r)
              ELSE UNCHANGED <<app, feed, loadMoreBtn, buttons, listeners>>
    /\ UNCHANGED <<reads, clicks, logins>>
    /\ UNCHANGED <<routeVars, cacheVars, gwVars, filterVars, fnVars, chanVars, authVars>>
    /\ UNCHANGED <<pollTimer, currentRoute, homePostsLoaded, runs, loads, postLog,
                   finished>>

\* the control is in the page and takes clicks
Clickable(control) ==
    /\ buttons.by # 0
    /\ control \notin buttons.disabled
    /\ control = "unreact" => buttons.active = "active"

\* the mutation the handler of a click on the control calls
MutationOf(control) ==
    CASE control = "vote" ->
            IF buttons.voted THEN "removeReaction" ELSE "addReaction"
      [] control = "react" -> "addReaction"
      [] control = "unreact" -> "removeReaction"

\* One click on a control: every listener registered for it runs, in
\* registration order, up to its first await.
Click(control) ==
    LET n     == Len(listeners)
        first == Len(ops) + 1
        click == [control |-> control, tokenAtClick |-> token, handlers |-> n,
                  by |-> buttons.by, first |-> first, calls |-> 0,
                  count |-> buttons.voteCount, wasVoted |-> buttons.voted]
    IN  /\ Clickable(control)
        /\ IF ~isAuthenticated(token)
           THEN /\ logins' = logins + n
                /\ clicks' = Append(clicks, click)
                /\ UNCHANGED <<ops, requests, buttons>>
           ELSE /\ clicks' = Append(clicks, [click EXCEPT !.calls = n])
                /\ ops' = ops \o [k \in 1..n |->
                              [name |-> MutationOf(control),
                               pc |-> IF NoToken(token) THEN "rejected" ELSE "mutation",
                               error |-> IF NoToken(token) THEN "Not authenticated"
                                         ELSE "",
                               tokenAtCall |-> token, status |-> 0]]
                /\ requests' = IF NoToken(token) THEN requests
                               ELSE requests \o [k \in 1..n |->
                                                    Request(first + k - 1, "graphql")]
                /\ buttons' = IF NoToken(token) \/ n = 0 THEN buttons
                              ELSE [buttons EXCEPT !.disabled = @ \cup {control}]
                /\ UNCHANGED logins
        /\ UNCHANGED <<dRuns, reads, listeners, token, repoInfo>>
        /\ UNCHANGED <<routeVars, cacheVars, appVars, filterVars, fnVars, chanVars, authVars>>

Max(a, b) == IF a > b THEN a ELSE b

\* what the handler of click c writes to its button once its mutation has
\* been answered; a button of a page since replaced is out of the document
AfterMutation(c, ok) ==
    LET click   == clicks[c]
        enabled == [buttons EXCEPT !.disabled = @ \ {click.control}]
    IN  IF buttons.by # click.by THEN buttons
        ELSE IF ~ok THEN enabled
        ELSE CASE click.control = "vote" ->
                    IF click.wasVoted
                    THEN [enabled EXCEPT !.voted = FALSE,
                                         !.voteCount = Max(0, click.count - 1)]
                    ELSE [enabled EXCEPT !.voted = TRUE,
                                         !.voteCount = click.count + 1]
               [] click.control = "unreact" ->
                    IF buttons.reactionCount <= 1
                    THEN [enabled EXCEPT !.active = "absent", !.reactionCount = 0]
                    ELSE [enabled EXCEPT !.active = "inactive",
                                         !.reactionCount = @ - 1]
               [] click.control = "react" -> buttons

\* The answer to the mutation called by the k-th handler of click c; after
\* a reaction is added the handler reloads the discussion it was attached
\* for.
ReactionSettle(c, k, ok) ==
    LET o == clicks[c].first + k - 1
    IN  /\ k \in 1..clicks[c].calls
        /\ ops[o].pc = "mutation"
        /\ ops' = [ops EXCEPT ![o].pc = IF ok THEN "resolved" ELSE "rejected",
                              ![o].error = IF ok THEN "" ELSE "GraphQL request failed"]
        /\ buttons' = AfterMutation(c, ok)
        /\ IF ok /\ clicks[c].control = "react"
           THEN FetchBoth("reload", listeners[k], currentRoute)
           ELSE UNCHANGED <<dRuns, reads>>
        /\ UNCHANGED <<listeners, clicks, logins, token, repoInfo, requests>>
        /\ UNCHANGED <<routeVars, cacheVars, appVars, filterVars, fnVars, chanVars, authVars>>

InitDiscussion ==
    /\ RouteIdle
    /\ CacheIdle
    /\ AppIdle
    /\ FilterIdle
    /\ FnIdle
    /\ ChannelIdle
    /\ AuthIdle
    /\ DiscIdle
    /\ token \in Tokens
    /\ repoInfo = FALSE
    /\ ops = <<>>
    /\ requests = <<>>

\* a further load of a discussion page may begin
RoomForLoad ==
    /\ Len(dRuns) < MaxDiscRuns
    /\ Cardinality({r \in DRunIds : dRuns[r].pc = "await"}) < MaxDiscBusy

NextDiscussion ==
    \/ RoomForLoad /\ \E n \in DiscussionNumbers : DiscussionNavigate(n)
    \/ \E r \in DRunIds, answer \in Threads \cup {NullThread} : DiscussionRead(r, answer)
    \/ \E r \in DRunIds, ok \in BOOLEAN : CommentsRead(r, ok)
    \/ Len(clicks) < MaxClicks /\ \E control \in Controls : Click(control)
    \/ \E c \in ClickIds, k \in 1..MaxDiscRuns, ok \in BOOLEAN :
          /\ (ok /\ clicks[c].control = "react") => RoomForLoad
          /\ ReactionSettle(c, k, ok)
    \/ \E t \in Tokens : StoreToken(t)

SpecDiscussion == InitDiscussion /\ [][NextDiscussion]_vars

\* C11: with no credential stored, a click on the vote control starts the
\* login redirect, issues no reaction mutation request and leaves the vote
\* count and the voted state as they were.
C11_UnauthenticatedVoteLogsIn ==
    [][(Click("vote") /\ NoToken(token)) =>
           /\ logins' > logins
           /\ requests' = requests
           /\ ops' = ops
           /\ buttons'.voteCount = buttons.voteCount
           /\ buttons'.voted = buttons.voted]_vars

\* a vote click was handled with no credential on a rendered discussion
C11_Witness ==
    \E c \in ClickIds :
        /\ clicks[c].control = "vote"
        /\ NoToken(clicks[c].tokenAtClick)
        /\ clicks[c].handlers >= 1
        /\ logins >= 1

\* C12: a request for the comments of a discussion is issued only after
\* the discussion request of the same load has returned an existing thread.
C12_CommentsOnlyAfterFound ==
    \A i \in DOMAIN reads :
        reads[i].kind = "comments" =>
            dRuns[reads[i].run].discussion.state = "found"

\* the requests of the handlers that ran for click c
RequestsOf(c) ==
    {i \in DOMAIN requests :
        /\ requests[i].op >= clicks[c].first
        /\ requests[i].op < clicks[c].first + clicks[c].calls}

\* C13: however often a discussion page has been rendered, one click on a
\* vote or reaction control runs one handler and issues at most one
\* reaction mutation request.
C13_OneClickOneMutation ==
    \A c \in ClickIds :
        /\ clicks[c].handlers <= 1
        /\ Cardinality(RequestsOf(c)) <= 1

\* C15: a page handler's read that fails (here the post log read of the
\* home page) is not followed by another request for the same dispatch, and
\* the dispatch ends showing the error view.
C15_FailedReadEndsInErrorView ==
    \A r \in RunIds :
        runs[r].fellBack =>
            /\ runs[r].pc # "rest"
            /\ runs[r].pc = "done" => runs[r].out.kind = "error"

\* C16: whenever a request sent with the stored credential is answered
\* 401 (user lookup, GraphQL mutation, comment post), the credential and
\* the cached identity are both removed.
C16_UnauthorizedClearsCredential ==
    [][\A o \in OpIds :
          (MutationSettle(o, 401) \/ PostSettle(o, 401) \/ UserSettle(o, 401)) =>
              /\ token' = Null
              /\ user' = Null]_vars

(***************************************************************************)
(* RB_RENDER.renderCommentTree (render.js) applied to one flat list.  A    *)
(* comment is its id and its parent id; 0 stands for null, the value       *)
(* fetchComments gives a missing id.  Comments are named by their          *)
(* position in the list.                                                   *)
(***************************************************************************)
MaxComments == 3

Comments == [id : 0..MaxComments, parentId : 0..(MaxComments + 1)]

CommentLists == SeqsUpTo(Comments, MaxComments)

\* byId after the first loop: the last comment stored under the id, 0 for
\* none; a comment with a falsy id is not stored
ById(comments, id) ==
    LET stored == {i \in DOMAIN comments : comments[i].id # 0 /\ comments[i].id = id}
    IN  IF stored = {} THEN 0
        ELSE CHOOSE i \in stored : \A j \in stored : j <= i

NeverHasParent(comments, i) == FALSE

\* c.parentId && byId.has(c.parentId)
HasParent(comments, i) ==
    comments[i].parentId # 0 /\ ById(comments, comments[i].parentId) # 0

\* for (const c of comments): the positions in list order
Positions(comments) == [i \in DOMAIN comments |-> i]

\* the second loop: roots, and the replies pushed to each comment
Roots(comments) ==
    SelectSeq(Positions(comments), LAMBDA i : ~HasParent(comments, i))

Replies(comments, j) ==
    SelectSeq(Positions(comments),
              LAMBDA i : HasParent(comments, i)
                         /\ ById(comments, comments[i].parentId) = j)

\* renderSingleComment: the comment, then its replies, depth first
RECURSIVE RenderSingle(_, _)
RECURSIVE RenderAll(_, _)
RenderSingle(comments, i) == <<i>> \o RenderAll(comments, Replies(comments, i))

RenderAll(comments, list) ==
    IF list = <<>> THEN <<>>
    ELSE RenderSingle(comments, Head(list)) \o RenderAll(comments, Tail(list))

renderCommentTree(comments) ==
    [roots    |-> Roots(comments),
     replies  |-> [j \in DOMAIN comments |-> Replies(comments, j)],
     rendered |-> RenderAll(comments, Roots(comments))]

InitTree ==
    /\ RouteIdle
    /\ CacheIdle
    /\ AppIdle
    /\ GatewayIdle
    /\ DiscIdle
    /\ FilterIdle
    /\ ChannelIdle
    /\ AuthIdle
    /\ fnIn \in CommentLists
    /\ fnPc = "call"
    /\ fnOut = <<>>

ApplyCommentTree ==
    /\ fnPc = "call"
    /\ fnPc' = "returned"
    /\ fnOut' = renderCommentTree(fnIn)
    /\ UNCHANGED <<fnIn, routeVars, cacheVars, appVars, gwVars, discVars,
                   filterVars, chanVars, authVars>>

NextTree == ApplyCommentTree

SpecTree == InitTree /\ [][NextTree]_vars

\* the ids of the list are pairwise distinct
DistinctIds(comments) ==
    \A i, j \in DOMAIN comments : comments[i].id = comments[j].id => i = j

\* i's parent reference names the comment at position j
ParentAt(comments, i, j) ==
    comments[i].parentId # 0 /\ comments[j].id = comments[i].parentId

\* the comments reached from i by following parent references k times
RECURSIVE Ancestors(_, _, _)
Ancestors(comments, i, k) ==
    IF k = 0 THEN {}
    ELSE LET parents == {j \in DOMAIN comments : ParentAt(comments, i, j)}
         IN  parents \cup UNION {Ancestors(comments, j, k - 1) : j \in parents}

Acyclic(comments) ==
    \A i \in DOMAIN comments : i \notin Ancestors(comments, i, Len(comments))

\* how often x occurs in s
Occurrences(s, x) == Cardinality({k \in DOMAIN s : s[k] = x})

InRoots(i) == \E k \in DOMAIN fnOut.roots : fnOut.roots[k] = i

\* C17: for a list with distinct ids and acyclic parent references, in any
\* order, a comment is a root exactly when its parent id is absent or is no
\* comment's id, otherwise it is a reply of the comment with that id, and
\* every comment occurs exactly once in the forest.
C17_CommentForest ==
    (fnPc = "returned" /\ DistinctIds(fnIn) /\ Acyclic(fnIn)) =>
        \A i \in DOMAIN fnIn :
            /\ InRoots(i) <=> ~\E j \in DOMAIN fnIn : ParentAt(fnIn, i, j)
            /\ \A j \in DOMAIN fnIn :
                  ParentAt(fnIn, i, j) <=> Occurrences(fnOut.replies[j], i) = 1
            /\ Occurrences(fnOut.roots, i)
                 + Cardinality({j \in DOMAIN fnIn : Occurrences(fnOut.replies[j], i) > 0})
                 = 1
            /\ Occurrences(fnOut.rendered, i) = 1

\* a reply listed before its parent, beside a comment whose parent is not
\* in the list: the forest has two roots and one reply
C17_Witness ==
    /\ fnPc = "returned"
    /\ fnIn = << [id |-> 2, parentId |-> 1], [id |-> 1, parentId |-> 0],
                 [id |-> 3, parentId |-> 4] >>
    /\ fnOut.roots = <<2, 3>>
    /\ fnOut.replies[2] = <<1>>
    /\ fnOut.rendered = <<2, 1, 3>>

(***************************************************************************)
(* RB_DISCUSSIONS.extractAuthor and stripByline (discussions.js) applied   *)
(* to one body.  A body is a sequence of symbols: "open" is the text       *)
(* `*Posted by **`, "copen" the text `*— **`, "close" the text `***`,     *)
(* "nl" a line feed, "---" the separator, and "text" a piece of text with  *)
(* no asterisk and no white space.                                         *)
(***************************************************************************)
MaxBodyLen == 7

BodySymbols == {"open", "copen", "close", "text", "nl", "---"}

Bodies == SeqsUpTo(BodySymbols, MaxBodyLen)

\* [^*]
NonStar(c) == c \in {"text", "nl", "---"}

\* [^*]+ from position p: the length of the longest run
RECURSIVE NonStarRun(_, _)
NonStarRun(body, p) ==
    IF p <= Len(body) /\ NonStar(body[p]) THEN 1 + NonStarRun(body, p + 1) ELSE 0

\* \s* from position p: the length of the longest run
RECURSIVE SpaceRun(_, _)
SpaceRun(body, p) ==
    IF p <= Len(body) /\ body[p] = "nl" THEN 1 + SpaceRun(body, p + 1) ELSE 0

\* opening \*\*([^*]+)\*\*\* matches at position p
BylineAt(body, p, opening) ==
    /\ p <= Len(body)
    /\ body[p] = opening
    /\ NonStarRun(body, p + 1) >= 1
    /\ p + NonStarRun(body, p + 1) + 1 <= Len(body)
    /\ body[p + NonStarRun(body, p + 1) + 1] = "close"

\* the position of the closing *** of the byline at p
BylineEnd(body, p) == p + NonStarRun(body, p + 1) + 1

\* ^ under the m flag: the start of the body or of any line
LineStart(body, p) == p = 1 \/ body[p - 1] = "nl"

NoAuthor == [found |-> FALSE, name |-> <<>>]

\* body.match(/^opening\*\*([^*]+)\*\*\*/m): the leftmost match's group
MatchByline(body, opening) ==
    LET at == {p \in DOMAIN body : LineStart(body, p) /\ BylineAt(body, p, opening)}
    IN  IF at = {} THEN NoAuthor
        ELSE LET p == CHOOSE q \in at : \A r \in at : q <= r
             IN  [found |-> TRUE,
                  name |-> SubSeq(body, p + 1, BylineEnd(body, p) - 1)]

extractAuthor(body) ==
    IF body = <<>> THEN NoAuthor
    ELSE IF MatchByline(body, "open").found THEN MatchByline(body, "open")
    ELSE MatchByline(body, "copen")

\* body.replace(/^\*Posted by \*\*[^*]+\*\*\*\s*\n---\s*\n?/, '')
StripPost(body) ==
    IF BylineAt(body, 1, "open")
    THEN LET e   == BylineEnd(body, 1)
             w   == SpaceRun(body, e + 1)
             sep == e + w + 1
         IN  IF w >= 1 /\ sep <= Len(body) /\ body[sep] = "---"
             THEN SubSeq(body, sep + SpaceRun(body, sep + 1) + 1, Len(body))
             ELSE body
    ELSE body

\* body.replace(/^\*— \*\*[^*]+\*\*\*\s*\n?/, '')
StripComment(body) ==
    IF BylineAt(body, 1, "copen")
    THEN LET e == BylineEnd(body, 1)
         IN  SubSeq(body, e + SpaceRun(body, e + 1) + 1, Len(body))
    ELSE body

stripByline(body) ==
    IF body = <<>> THEN body ELSE StripComment(StripPost(body))

InitByline ==
    /\ RouteIdle
    /\ CacheIdle
    /\ AppIdle
    /\ GatewayIdle
    /\ DiscIdle
    /\ FilterIdle
    /\ ChannelIdle
    /\ AuthIdle
    /\ fnIn \in Bodies
    /\ fnPc = "call"
    /\ fnOut = <<>>

ApplyByline ==
    /\ fnPc = "call"
    /\ fnPc' = "returned"
    /\ fnOut' = [author |-> extractAuthor(fnIn), body |-> stripByline(fnIn)]
    /\ UNCHANGED <<fnIn, routeVars, cacheVars, appVars, gwVars, discVars,
                   filterVars, chanVars, authVars>>

NextByline == ApplyByline

SpecByline == InitByline /\ [][NextByline]_vars

\* the first line of the body, without its line feed
FirstLine(body) ==
    LET ends == {p \in DOMAIN body : body[p] = "nl"}
    IN  IF ends = {} THEN body
        ELSE SubSeq(body, 1, (CHOOSE p \in ends : \A q \in ends : p <= q) - 1)

\* the first line is a byline of either form and nothing else
FirstLineIsByline(body) ==
    LET line == FirstLine(body)
    IN  \E opening \in {"open", "copen"} :
            BylineAt(line, 1, opening) /\ BylineEnd(line, 1) = Len(line)

\* the first line holds a byline of either form
FirstLineHasByline(body) ==
    \E opening \in {"open", "copen"}, p \in DOMAIN FirstLine(body) :
        BylineAt(FirstLine(body), p, opening)

\* the body is `*Posted by **name***`, a separator line, then content that
\* begins with text
BylineThenContent(body) ==
    /\ Len(body) >= 7
    /\ body[1] = "open" /\ body[2] = "text" /\ body[3] = "close"
    /\ body[4] = "nl" /\ body[5] = "---" /\ body[6] = "nl"
    /\ body[7] = "text"

\* C18: a first-line post byline followed by a separator line and content
\* gives its name and the body from the content on; a first line without
\* a byline, whatever follows, gives no author and the body as it was.
C18_BylineOnFirstLineOnly ==
    fnPc = "returned" =>
        /\ BylineThenContent(fnIn) =>
              /\ fnOut.author = [found |-> TRUE, name |-> <<"text">>]
              /\ fnOut.body = SubSeq(fnIn, 7, Len(fnIn))
        /\ ~FirstLineHasByline(fnIn) =>
              /\ fnOut.author = NoAuthor
              /\ fnOut.body = fnIn

(***************************************************************************)
(* RB_MARKDOWN.render (markdown.js) applied to one text.  A text is a      *)
(* sequence of characters; "nl" is the line feed, "bt" the backtick and    *)
(* "a" a letter.  What render inserts (entities, tags, placeholders) is    *)
(* one symbol each: none of it holds a backtick, an asterisk or a line     *)
(* feed, so the later expressions read it as plain text.  The texts tried  *)
(* hold no '#', no '[' and no '- ', so the header, link and list           *)
(* replacements (lines 28-30, 39, 42-47) match nothing and are left out.   *)
(***************************************************************************)
\* the character at position p, "" past either end
At(s, p) == IF p \in DOMAIN s THEN s[p] ELSE ""

\* the length of the longest run of characters from p that are not in stop
RECURSIVE Run(_, _, _)
Run(s, p, stop) ==
    IF p \in DOMAIN s /\ s[p] \notin stop THEN 1 + Run(s, p + 1, stop) ELSE 0

\* \w* from p
RECURSIVE WordRun(_, _)
WordRun(s, p) == IF At(s, p) = "a" THEN 1 + WordRun(s, p + 1) ELSE 0

\* escapeHtml: & first, then <, > and the double quote
escapeHtml(text) ==
    [i \in DOMAIN text |->
        CASE text[i] = "&" -> "&amp;"
          [] text[i] = "<" -> "&lt;"
          [] text[i] = ">" -> "&gt;"
          [] text[i] = "\"" -> "&quot;"
          [] OTHER -> text[i]]

\* a fence at position p
IsFence(s, p) == At(s, p) = "bt" /\ At(s, p + 1) = "bt" /\ At(s, p + 2) = "bt"

\* the first position from q on where a fence begins, 0 for none
RECURSIVE NextFence(_, _)
NextFence(s, q) ==
    IF q > Len(s) THEN 0
    ELSE IF IsFence(s, q) THEN q ELSE NextFence(s, q + 1)

\* the placeholder of code block number i
Placeholder(i) ==
    <<"%%CODEBLOCK_0%%", "%%CODEBLOCK_1%%", "%%CODEBLOCK_2%%", "%%CODEBLOCK_3%%">>[i + 1]

\* <pre><code ...>code.replace(/\n$/, "")</code></pre>
CodeBlock(lang, code) ==
    <<IF lang = <<>> THEN "<pre><code>" ELSE "<pre><code class=language>">>
    \o (IF code # <<>> /\ code[Len(code)] = "nl"
        THEN SubSeq(code, 1, Len(code) - 1) ELSE code)
    \o <<"</code></pre>">>

\* html.replace(/a fence(\w*)\n([\s\S]*?)a fence/g, ...): from position p on, with
\* the output and the code blocks so far
RECURSIVE ExtractFenced(_, _, _, _)
ExtractFenced(s, p, out, blocks) ==
    IF p > Len(s) THEN [html |-> out, codeBlocks |-> blocks]
    ELSE LET w     == WordRun(s, p + 3)
             start == p + 3 + w + 1
             q     == NextFence(s, start)
         IN  IF IsFence(s, p) /\ At(s, p + 3 + w) = "nl" /\ q # 0
             THEN ExtractFenced(s, q + 3, Append(out, Placeholder(Len(blocks))),
                                Append(blocks,
                                       CodeBlock(SubSeq(s, p + 3, p + 2 + w),
                                                 SubSeq(s, start, q - 1))))
             ELSE ExtractFenced(s, p + 1, Append(out, s[p]), blocks)

\* html.replace(/bt ([^bt \n]+)bt /g, '<code>$1</code>')
RECURSIVE InlineCode(_, _, _)
InlineCode(s, p, out) ==
    IF p > Len(s) THEN out
    ELSE LET n == Run(s, p + 1, {"bt", "nl"})
         IN  IF s[p] = "bt" /\ n >= 1 /\ At(s, p + 1 + n) = "bt"
             THEN InlineCode(s, p + n + 2,
                             out \o <<"<code>">> \o SubSeq(s, p + 1, p + n)
                                 \o <<"</code>">>)
             ELSE InlineCode(s, p + 1, Append(out, s[p]))

\* html.replace(/\*\*([^\n*]+)\*\*/g, '<strong>$1</strong>')
RECURSIVE Bold(_, _, _)
Bold(s, p, out) ==
    IF p > Len(s) THEN out
    ELSE LET n == Run(s, p + 2, {"*", "nl"})
         IN  IF /\ s[p] = "*" /\ At(s, p + 1) = "*" /\ n >= 1
                /\ At(s, p + 2 + n) = "*" /\ At(s, p + 3 + n) = "*"
             THEN Bold(s, p + n + 4,
                       out \o <<"<strong>">> \o SubSeq(s, p + 2, p + 1 + n)
                           \o <<"</strong>">>)
             ELSE Bold(s, p + 1, Append(out, s[p]))

\* html.replace(/(?<!\*)\*([^\n*]+)\*(?!\*)/g, '<em>$1</em>')
RECURSIVE Italic(_, _, _)
Italic(s, p, out) ==
    IF p > Len(s) THEN out
    ELSE LET n == Run(s, p + 1, {"*", "nl"})
         IN  IF /\ s[p] = "*" /\ At(s, p - 1) # "*" /\ n >= 1
                /\ At(s, p + 1 + n) = "*" /\ At(s, p + 2 + n) # "*"
             THEN Italic(s, p + n + 2,
                         out \o <<"<em>">> \o SubSeq(s, p + 1, p + n) \o <<"</em>">>)
             ELSE Italic(s, p + 1, Append(out, s[p]))

\* \n+ from p
RECURSIVE NlRun(_, _)
NlRun(s, p) == IF At(s, p) = "nl" THEN 1 + NlRun(s, p + 1) ELSE 0

\* html.split(/\n\n+/): from position p on, with the block being read and
\* the blocks so far
RECURSIVE SplitBlocks(_, _, _, _)
SplitBlocks(s, p, cur, acc) ==
    IF p > Len(s) THEN Append(acc, cur)
    ELSE IF s[p] = "nl" /\ At(s, p + 1) = "nl"
    THEN SplitBlocks(s, p + NlRun(s, p), <<>>, Append(acc, cur))
    ELSE SplitBlocks(s, p + 1, Append(cur, s[p]), acc)

\* block.trim(): the line feed is the only white space of these texts
RECURSIVE Trim(_)
Trim(block) ==
    IF block = <<>> THEN block
    ELSE IF Head(block) = "nl" THEN Trim(Tail(block))
    ELSE IF block[Len(block)] = "nl" THEN Trim(SubSeq(block, 1, Len(block) - 1))
    ELSE block

\* /^<(h[1-3]|ul|pre|%%CODEBLOCK)/.test(trimmed): a placeholder does not
\* begin with '<'
BlockLevel(trimmed) == trimmed[1] \in {"<h1>", "<h2>", "<h3>", "<ul>"}

\* the callback of blocks.map
WrapBlock(block) ==
    LET trimmed == Trim(block)
    IN  IF trimmed = <<>> THEN <<>>
        ELSE IF BlockLevel(trimmed) THEN trimmed
        ELSE <<"<p>">> \o trimmed \o <<"</p>">>

\* blocks.map(...).join('\n')
RECURSIVE JoinBlocks(_)
JoinBlocks(blocks) ==
    IF blocks = <<>> THEN <<>>
    ELSE IF Len(blocks) = 1 THEN WrapBlock(blocks[1])
    ELSE WrapBlock(Head(blocks)) \o <<"nl">> \o JoinBlocks(Tail(blocks))

\* html.replace(/<p>([\s\S]*?)<\/p>/g, ...): a line feed between <p> and
\* the next </p> becomes <br>
RECURSIVE LineBreaks(_, _, _, _)
LineBreaks(s, p, inside, out) ==
    IF p > Len(s) THEN out
    ELSE IF s[p] = "<p>" /\ ~inside
    THEN LineBreaks(s, p + 1, \E q \in (p + 1)..Len(s) : s[q] = "</p>", Append(out, s[p]))
    ELSE IF s[p] = "</p>" /\ inside THEN LineBreaks(s, p + 1, FALSE, Append(out, s[p]))
    ELSE LineBreaks(s, p + 1, inside,
                    Append(out, IF inside /\ s[p] = "nl" THEN "<br>" ELSE s[p]))

\* html.replace(bt %%CODEBLOCK_${i}%%bt , block): the first occurrence
ReplaceFirst(s, symbol, block) ==
    LET at == {p \in DOMAIN s : s[p] = symbol}
    IN  IF at = {} THEN s
        ELSE LET p == CHOOSE q \in at : \A r \in at : q <= r
             IN  SubSeq(s, 1, p - 1) \o block \o SubSeq(s, p + 1, Len(s))

\* codeBlocks.forEach: blocks i, i + 1, ... are put back in turn
RECURSIVE Restore(_, _, _)
Restore(html, blocks, i) ==
    IF i > Len(blocks) THEN html
    ELSE Restore(ReplaceFirst(html, Placeholder(i - 1), blocks[i]), blocks, i + 1)

render(text) ==
    IF text = <<>> THEN <<>>
    ELSE LET fenced == ExtractFenced(escapeHtml(text), 1, <<>>, <<>>)
             code   == InlineCode(fenced.html, 1, <<>>)
             bold   == Bold(code, 1, <<>>)
             italic == Italic(bold, 1, <<>>)
             paras  == JoinBlocks(SplitBlocks(italic, 1, <<>>, <<>>))
             breaks == LineBreaks(paras, 1, FALSE, <<>>)
         IN  Restore(breaks, fenced.codeBlocks, 1)

\* the concatenation of a sequence of texts
RECURSIVE Flatten(_)
Flatten(chunks) ==
    IF chunks = <<>> THEN <<>> ELSE Head(chunks) \o Flatten(Tail(chunks))

ApplyRender ==
    /\ fnPc = "call"
    /\ fnPc' = "returned"
    /\ fnOut' = render(fnIn)
    /\ UNCHANGED <<fnIn, routeVars, cacheVars, appVars, gwVars, discVars,
                   filterVars, chanVars, authVars>>

\* texts of the five metacharacters, a letter, a fence and a line feed
MaxEscapeChunks == 4

EscapeChunks ==
    { <<"&">>, <<"<">>, <<">">>, <<"\"">>, <<"'">>, <<"a">>, <<"nl">>,
      <<"bt", "bt", "bt">> }

InitEscape ==
    /\ RouteIdle
    /\ CacheIdle
    /\ AppIdle
    /\ GatewayIdle
    /\ DiscIdle
    /\ FilterIdle
    /\ ChannelIdle
    /\ AuthIdle
    /\ fnIn \in {Flatten(c) : c \in SeqsUpTo(EscapeChunks, MaxEscapeChunks)}
    /\ fnPc = "call"
    /\ fnOut = <<>>

NextEscape == ApplyRender

SpecEscape == InitEscape /\ [][NextEscape]_vars

\* texts of emphasis markers, backticks, fences, a letter and a line feed
MaxCodeChunks == 6

CodeChunks == { <<"*">>, <<"a">>, <<"nl">>, <<"bt">>, <<"bt", "bt", "bt">> }

InitCode ==
    /\ RouteIdle
    /\ CacheIdle
    /\ AppIdle
    /\ GatewayIdle
    /\ DiscIdle
    /\ FilterIdle
    /\ ChannelIdle
    /\ AuthIdle
    /\ fnIn \in {Flatten(c) : c \in SeqsUpTo(CodeChunks, MaxCodeChunks)}
    /\ fnPc = "call"
    /\ fnOut = <<>>

NextCode == ApplyRender

SpecCode == InitCode /\ [][NextCode]_vars

\* C19: none of the five HTML metacharacters of the input reaches the
\* output of render unescaped, inside a fenced code block or outside.
C19_AllFiveEscaped ==
    fnPc = "returned" =>
        \A p \in DOMAIN fnOut : fnOut[p] \notin {"&", "<", ">", "\"", "'"}

\* the positions of the output that lie inside a code element
InCode(p) ==
    \E o \in 1..(p - 1) :
        /\ fnOut[o] \in {"<code>", "<pre><code>", "<pre><code class=language>"}
        /\ \A c \in (o + 1)..(p - 1) : fnOut[c] \notin {"</code>", "</code></pre>"}

\* C20: emphasis markers inside a fenced code block or an inline code span
\* stay literal: no strong or em element begins inside a code element.
C20_CodeIsLiteral ==
    fnPc = "returned" =>
        \A p \in DOMAIN fnOut :
            fnOut[p] \in {"<strong>", "<em>"} => ~InCode(p)

(***************************************************************************)
(* C21: the posts-loaded cursor across navigations.                        *)
(***************************************************************************)
\* the route is set and is not the home route
AwayFromHome == currentRoute # <<>> /\ currentRoute # <<"/">>

\* C21 (as claimed): while the route is not the home route, the posts-loaded
\* cursor is at its default, 0: a navigation away from home resets it, and
\* nothing left over from the home visit assigns it afterwards.
C21_CursorResetOnRouteChange ==
    AwayFromHome => homePostsLoaded = 0

(***************************************************************************)
(* C22, C23: the cache clear of a poll tick, and the timestamp of an       *)
(* entry.                                                                  *)
(***************************************************************************)
\* j is the first call for its key that began after the latest cache clear
FirstAfterClear(j) ==
    /\ calls[j].clearsAtBegin > 0
    /\ \A i \in CallIds :
          (i < j /\ SameKey(i, j)) => calls[i].clearsAtBegin < calls[j].clearsAtBegin

\* C22 (as claimed): the first getCached call for a key that begins after a
\* cache clear invokes its producer, whatever calls were in flight when the
\* cache was cleared.
C22_ClearForcesRefetch ==
    \A j \in CallIds : FirstAfterClear(j) => calls[j].invoked = 1

\* the call c stores its producer's result in this step
Stores(c) ==
    /\ c \in CallIds
    /\ calls[c].pc = "pending"
    /\ calls'[c].pc = "resolved"

\* C23 (as claimed): when getCached stores its producer's result, the entry
\* carries the time of that moment, so that a get made less than the expiry
\* time after the store finds the entry valid.
C23_StoredWithCurrentTimestamp ==
    [][\A c \in CallIds :
          Stores(c) =>
              /\ cache'[calls[c].key].timestamp = now
              /\ CacheValid(cache', calls[c].key, now)]_vars

(***************************************************************************)
(* C24: the fetches of one home dispatch.                                  *)
(***************************************************************************)
\* run r has sent fetchRecent's request
RecentIssued(r) ==
    \/ runs[r].pc \in {"recent", "rest"}
    \/ runs[r].pc = "done" /\ runs[r].out.kind = "page"

\* C24 (as claimed): in a run of handleHome the request for the recent posts
\* is out whenever a request for stats, trending, changes or pokes is out
\* (none waits for another), and the run has written its page only when none
\* of its requests is still unanswered.
C24_HomeFetchesConcurrent ==
    \A r \in RunIds :
        runs[r].handler = "handleHome" =>
            /\ runs[r].waiting # {} => RecentIssued(r)
            /\ runs[r].pc = "done" => runs[r].waiting = {}

(***************************************************************************)
(* C25: parent cycles among comments.                                      *)
(***************************************************************************)
\* the comment i's parent reference resolves to in byId, 0 for none
ParentPos(comments, i) ==
    IF comments[i].parentId = 0 THEN 0
    ELSE ById(comments, comments[i].parentId)

\* where k parent references lead from i; 0 once the chain has ended
RECURSIVE Climb(_, _, _)
Climb(comments, i, k) ==
    IF i = 0 \/ k = 0 THEN i
    ELSE Climb(comments, ParentPos(comments, i), k - 1)

\* i's chain of parent references never ends: it is on a cycle or below one
UnderCycle(comments, i) == Climb(comments, i, Len(comments)) # 0

\* C25 (as claimed): for a list with distinct ids in which some comment's
\* parent reference points to itself or to one of its descendants, rendering
\* the comment tree does not return.
C25_CycleNeverReturns ==
    (DistinctIds(fnIn) /\ ~Acyclic(fnIn)) => fnPc # "returned"

\* C25 (amended): parent cycles are not detected, and rendering returns for
\* every list: a comment whose chain of parent references runs into a cycle
\* is in no root's subtree and is left out of the output, and every other
\* comment is rendered exactly once.
C25_CyclesAreLeftOut ==
    fnPc = "returned" =>
        \A i \in DOMAIN fnIn :
            Occurrences(fnOut.rendered, i) = IF UnderCycle(fnIn, i) THEN 0 ELSE 1

\* two comments that name each other as parent beside a comment that is its
\* own parent: there is no root and the output is empty
C25_Witness ==
    /\ fnPc = "returned"
    /\ \E a, b, c \in DOMAIN fnIn :
          /\ a # b
          /\ ParentPos(fnIn, a) = b /\ ParentPos(fnIn, b) = a
          /\ ParentPos(fnIn, c) = c
    /\ fnOut.roots = <<>>
    /\ fnOut.rendered = <<>>

(***************************************************************************)
(* The home page under poll-triggered refreshes: the page is opened at the *)
(* home route, the timer fires while it is shown, the user presses the     *)
(* load-more button and may leave for the explore page.                    *)
(***************************************************************************)
MaxRefreshRuns == 3

MaxRefreshTicks == 1

MaxRefreshLoads == 2

RefreshHashes == { <<"/", "explore">> }

NextRefresh ==
    \/ AppInit(<<>>)
    \/ Len(runs) < MaxRefreshRuns /\ \E h \in RefreshHashes : Navigate(h)
    \/ \E r \in RunIds, k \in HomeKeys, ok \in BOOLEAN : CachedSettle(r, k, ok)
    \/ \E r \in RunIds, ok \in BOOLEAN : RecentSettle(r, ok)
    \/ \E r \in RunIds, ok \in BOOLEAN : RestSettle(r, ok)
    \/ Len(loads) < MaxRefreshLoads /\ LoadMoreClick
    \/ \E l \in LoadIds, ok \in BOOLEAN : LoadMoreLogSettle(l, ok)
    \/ \E l \in LoadIds, ok \in BOOLEAN : LoadMoreRestSettle(l, ok)
    \/ /\ clears < MaxRefreshTicks
       /\ RoomForTick(MaxRefreshRuns, MaxRefreshRuns)
       /\ PollTick
    \/ now < MaxRefreshTicks * pollInterval /\ AppAdvanceClock(pollInterval)

SpecRefresh == InitApp /\ [][NextRefresh]_vars

(***************************************************************************)
(* C26, C27: poll-triggered refreshes of the home page.                    *)
(***************************************************************************)
\* #app shows what a navigation to a route other than home has rendered
ShowsOtherRoute ==
    /\ app.kind \in {"page", "error"}
    /\ app.route # <<"/">>
    /\ runs[app.by].via = "nav"

\* C26 (as claimed): once a navigation to a route other than home has
\* rendered its page, no run of handleHome that the poll timer started
\* replaces that page.
C26_RefreshOnlyOnHome ==
    [][ShowsOtherRoute =>
          ~(/\ app' # app
            /\ app'.kind = "page" /\ app'.page = "home"
            /\ runs'[app'.by].via = "poll")]_vars

\* every request so far was answered from the post log: no page handler and
\* no load-more listener fell back to the platform's REST listing
OnlyLogReads ==
    /\ \A r \in RunIds : ~runs[r].fellBack
    /\ \A l \in LoadIds : ~loads[l].fellBack

\* the home page is shown and the user has never left the home route
OnHomeThroughout ==
    /\ app.kind = "page" /\ app.page = "home"
    /\ \A r \in RunIds : runs[r].handler = "handleHome"

\* C27 (as claimed): while the home page is shown, with clicks on load-more
\* and poll-triggered refreshes interleaved in any way, the feed is the first
\* homePostsLoaded posts of the newest-first log, without gap or repetition.
C27_FeedIsPrefixOfLog ==
    (OnHomeThroughout /\ OnlyLogReads) =>
        /\ Len(feed) = homePostsLoaded
        /\ Len(feed) <= postLog
        /\ feed = SubSeq(NewestFirst(postLog), 1, Min(Len(feed), postLog))

(***************************************************************************)
(* C28: a load-more request and the page it belongs to.                    *)
(***************************************************************************)
\* the load-more listener l ends in this step and has put posts in the feed
Inserts(l) ==
    /\ loads[l].pc # "done"
    /\ loads'[l].pc = "done"
    /\ feed' # feed

\* C28 (as claimed): a load-more listener puts its posts only into the home
\* page; when the user has gone to another route while its request was in
\* flight, nothing is inserted into the page of that route.
C28_LoadMoreStaysOnHome ==
    [][\A l \in LoadIds :
          Inserts(l) => (app.kind = "page" /\ app.page = "home")]_vars

(***************************************************************************)
(* The comment form of the discussion page (router.js,                     *)
(* attachCommentHandler).  The form is part of the page when the page is   *)
(* rendered with a credential stored; its listeners sit on the submit      *)
(* button and on the textarea of that page.  The credential does not       *)
(* change while the form is used.                                          *)
(***************************************************************************)
MaxSubmits == 2

MaxCommentRuns == 2

\* the ways to submit: a click on .comment-submit, Ctrl/Cmd+Enter in the
\* textarea
SubmitKinds == {"submit-click", "submit-key"}

\* textarea.value.trim(): nothing, or a comment
CommentBodies == {"", "text"}

\* renderCommentSection: the form, or the login prompt
FormShown == buttons.by # 0 /\ isAuthenticated(token)

\* doSubmit up to its await: an empty body returns; otherwise the button is
\* disabled and postComment sends its POST.  A disabled button dispatches no
\* click; the keydown listener of the textarea calls doSubmit whatever the
\* state of the button.
Submit(kind, text) ==
    LET o      == Len(ops) + 1
        submit == [control |-> kind, tokenAtClick |-> token, handlers |-> 1,
                   by |-> buttons.by, first |-> o, calls |-> 1,
                   count |-> 0, wasVoted |-> FALSE]
    IN  /\ FormShown
        /\ kind = "submit-click" => "submit" \notin buttons.disabled
        /\ IF text = ""
           THEN UNCHANGED <<buttons, clicks, ops, requests>>
           ELSE /\ buttons' = [buttons EXCEPT !.disabled = @ \cup {"submit"}]
                /\ clicks' = Append(clicks, submit)
                /\ ops' = Append(ops, [name |-> "postComment", pc |-> "post",
                                       error |-> "", tokenAtCall |-> token,
                                       status |-> 0])
                /\ requests' = Append(requests, Request(o, "rest-post"))
        /\ UNCHANGED <<dRuns, reads, listeners, logins, token, repoInfo>>
        /\ UNCHANGED <<routeVars, cacheVars, appVars, filterVars, fnVars, chanVars, authVars>>

\* The answer to the POST of submission c: on success the discussion the
\* form was attached for is reloaded; on failure the button of that form is
\* enabled again.
SubmitSettle(c, status) ==
    LET o == clicks[c].first
    IN  /\ clicks[c].control \in SubmitKinds
        /\ ops[o].pc = "post"
        /\ ops' = [ops EXCEPT ![o].pc = IF Ok(status) THEN "resolved" ELSE "rejected",
                              ![o].error = IF Ok(status) THEN ""
                                           ELSE "Failed to post comment",
                              ![o].status = status]
        /\ IF Ok(status)
           THEN /\ FetchBoth("reload", dRuns[clicks[c].by].number, currentRoute)
                /\ UNCHANGED buttons
           ELSE /\ buttons' = IF buttons.by = clicks[c].by
                              THEN [buttons EXCEPT !.disabled = @ \ {"submit"}]
                              ELSE buttons
                /\ UNCHANGED <<dRuns, reads>>
        /\ UNCHANGED <<listeners, clicks, logins, token, repoInfo, requests>>
        /\ UNCHANGED <<routeVars, cacheVars, appVars, filterVars, fnVars, chanVars, authVars>>

\* a further load of the discussion page may begin
RoomForCommentLoad == Len(dRuns) < MaxCommentRuns

NextComment ==
    \/ dRuns = <<>> /\ \E n \in DiscussionNumbers : DiscussionNavigate(n)
    \/ \E r \in DRunIds, answer \in Threads \cup {NullThread} : DiscussionRead(r, answer)
    \/ \E r \in DRunIds, ok \in BOOLEAN : CommentsRead(r, ok)
    \/ /\ Len(clicks) < MaxSubmits
       /\ \E kind \in SubmitKinds, text \in CommentBodies : Submit(kind, text)
    \/ \E c \in ClickIds, status \in Statuses :
          /\ Ok(status) => RoomForCommentLoad
          /\ SubmitSettle(c, status)

SpecComment == InitDiscussion /\ [][NextComment]_vars

\* the submissions of the form of page b whose POST is unanswered
PendingSubmissions(b) ==
    {c \in ClickIds : /\ clicks[c].control \in SubmitKinds
                      /\ clicks[c].by = b
                      /\ ops[clicks[c].first].pc = "post"}

\* C29 (as claimed): of the submissions made through one rendered comment
\* form, at most one has its postComment request unanswered at any time.
C29_OneSubmissionInFlight ==
    \A r \in DRunIds : Cardinality(PendingSubmissions(r)) <= 1

(***************************************************************************)
(* The controls of the channel page (router.js handleChannel,              *)
(* attachChannelControls).  The page is rendered with the posts fetched    *)
(* for the channel; the type pills and the sort select re-render the feed  *)
(* from those posts.  A post is a number; its title, votes and comments    *)
(* are functions of the number.                                            *)
(***************************************************************************)
MaxChannelPosts == 3

ChannelPostPool == 1..4

\* p.upvotes || 0
Upvotes(p) == p % 3

\* p.commentCount || 0
CommentCount(p) == (p + 1) \div 2

\* what fetchRecent(slug, 100) may answer with: the posts of the channel
ChannelFeeds ==
    {posts \in SeqsUpTo(ChannelPostPool, MaxChannelPosts) :
        \A i, j \in DOMAIN posts : posts[i] = posts[j] => i = j}

\* the values of the options of #sort-select
SortValues == {"recent", "votes", "comments"}

SortKey(sortBy, p) == IF sortBy = "votes" THEN Upvotes(p) ELSE CommentCount(p)

\* Array.prototype.sort with (a, b) => key(b) - key(a): descending and
\* stable; x goes behind every post whose key is not smaller
RECURSIVE InsertDescending(_, _, _)
InsertDescending(sorted, x, sortBy) ==
    IF sorted = <<>> THEN <<x>>
    ELSE IF SortKey(sortBy, Head(sorted)) >= SortKey(sortBy, x)
    THEN <<Head(sorted)>> \o InsertDescending(Tail(sorted), x, sortBy)
    ELSE <<x>> \o sorted

RECURSIVE SortDescending(_, _)
SortDescending(posts, sortBy) ==
    IF posts = <<>> THEN <<>>
    ELSE InsertDescending(SortDescending(SubSeq(posts, 1, Len(posts) - 1), sortBy),
                          posts[Len(posts)], sortBy)

\* if (sortBy === 'votes') ... else if (sortBy === 'comments') ...; 'recent'
\* is the order of the array
SortPosts(posts, sortBy) ==
    IF sortBy = "recent" THEN posts ELSE SortDescending(posts, sortBy)

\* The tail of handleChannel: the page with the controls in their initial
\* state and the posts in fetched order, then attachChannelControls(posts).
ChannelRender(posts) ==
    /\ ~channel.shown
    /\ currentRoute' = <<"/", "channels", "/", "general">>
    /\ Show(Page("channel", currentRoute', 1), posts, NoButton)
    /\ channel' = [shown |-> TRUE, posts |-> posts, active |-> "all",
                   sort |-> "recent", currentTypeFilter |-> "all"]
    /\ UNCHANGED <<routeVars, cacheVars, gwVars, discVars, filterVars, fnVars, authVars>>
    /\ UNCHANGED <<pollTimer, homePostsLoaded, runs, loads, postLog, finished>>

\* A click on a pill: the listener of attachTypeFilter marks the pill and
\* renders the posts of its type in the order of the array; the listener of
\* attachChannelControls notes the type for the sort handler.
ChannelTypeClick(selectedType) ==
    /\ channel.shown
    /\ feed' = FilterPosts(channel.posts, selectedType)
    /\ channel' = [channel EXCEPT !.active = selectedType,
                                  !.currentTypeFilter = selectedType]
    /\ UNCHANGED <<routeVars, cacheVars, gwVars, discVars, filterVars, fnVars, authVars>>
    /\ UNCHANGED <<pollTimer, currentRoute, app, loadMoreBtn, homePostsLoaded,
                   runs, loads, postLog, finished>>

\* The change listener of #sort-select: the posts of the noted type, sorted
\* by the value chosen.  The event fires when the value changes.
ChannelSortChange(sortBy) ==
    /\ channel.shown
    /\ sortBy # channel.sort
    /\ feed' = SortPosts(FilterPosts(channel.posts, channel.currentTypeFilter), sortBy)
    /\ channel' = [channel EXCEPT !.sort = sortBy]
    /\ UNCHANGED <<routeVars, cacheVars, gwVars, discVars, filterVars, fnVars, authVars>>
    /\ UNCHANGED <<pollTimer, currentRoute, app, loadMoreBtn, homePostsLoaded,
                   runs, loads, postLog, finished>>

InitChannel ==
    /\ RouteIdle
    /\ CacheIdle
    /\ AppIdle
    /\ GatewayIdle
    /\ DiscIdle
    /\ FilterIdle
    /\ FnIdle
    /\ AuthIdle
    /\ ChannelIdle

NextChannel ==
    \/ \E posts \in ChannelFeeds : ChannelRender(posts)
    \/ \E selectedType \in PillTypes : ChannelTypeClick(selectedType)
    \/ \E sortBy \in SortValues : ChannelSortChange(sortBy)

SpecChannel == InitChannel /\ [][NextChannel]_vars

\* C30 (as claimed): on the channel page the feed holds the fetched posts
\* whose type is that of the active pill, all of them for 'all', in the
\* order of the value selected in the sort control: votes descending,
\* comments descending, or fetched order.
C30_FeedFilteredAndSorted ==
    channel.shown =>
        feed = SortPosts(FilterPosts(channel.posts, channel.active), channel.sort)


====
